---- MODULE Spec2Model ----
(***************************************************************************)
(* The trading bot. The backtest pipeline:                                 *)
(*   TradingStrategy.generate_signals     (src/src/trading/strategy.py)    *)
(*   RiskManagement.apply_risk_management (src/src/trading/risk_management.py) *)
(*   Backtest._calculate_pnl              (src/src/backtest/backtest.py)   *)
(* run one after the other by Backtest.run over one table of bars (the     *)
(* pandas DataFrame `data`), each a loop over the rows 1 .. len(data)-1.   *)
(* The live loop, live_trade (src/src/main.py), runs generate_signals over *)
(* the candles it fetches and acts on the newest row; main() starts one or *)
(* the other.                                                              *)
(*                                                                         *)
(* Floats are modelled as exact fractions <<n, d>> with d > 0, in lowest   *)
(* terms; NaN is <<0, 0>> and compares false with everything, as in IEEE.  *)
(* Rounding of binary floating point is not modelled.                      *)
(***************************************************************************)
EXTENDS Integers, Sequences, FiniteSets, TLC

VARIABLES
    data,   \* the DataFrame: row index -> record of columns
    pc,     \* which function of Backtest.run is running
    idx,    \* the loop variable of the running function
    sg,     \* locals of generate_signals
    rm,     \* locals of apply_risk_management
    bt,     \* locals of _calculate_pnl
    trades, \* the Trade Record list of _calculate_pnl
    live,   \* locals of live_trade
    report, \* the metrics generate_report returned
    self_data \* Backtest.data, the table the caller handed to the constructor

vars == <<data, pc, idx, sg, rm, bt, trades, live, report, self_data>>

(***************************************************************************)
(* Bounds of the model                                                     *)
(***************************************************************************)
\* number of rows of the DataFrame
MaxBars == 4

(***************************************************************************)
(* Float arithmetic on exact fractions                                     *)
(***************************************************************************)
RECURSIVE GCD(_, _)
GCD(a, b) == IF b = 0 THEN a ELSE GCD(b, a % b)

Abs(x) == IF x < 0 THEN -x ELSE x

NaN == <<0, 0>>

IsNaN(x) == x[2] = 0

Frac(n, d) ==
    IF d = 0 THEN NaN
    ELSE LET g == GCD(Abs(n), Abs(d))
             s == IF d < 0 THEN -1 ELSE 1
         IN  <<(s * n) \div g, (s * d) \div g>>

F(n) == <<n, 1>>

Add(a, b) == IF IsNaN(a) \/ IsNaN(b) THEN NaN
             ELSE Frac(a[1] * b[2] + b[1] * a[2], a[2] * b[2])

Sub(a, b) == IF IsNaN(a) \/ IsNaN(b) THEN NaN
             ELSE Frac(a[1] * b[2] - b[1] * a[2], a[2] * b[2])

Mul(a, b) == IF IsNaN(a) \/ IsNaN(b) THEN NaN
             ELSE Frac(a[1] * b[1], a[2] * b[2])

Div(a, b) == IF IsNaN(a) \/ IsNaN(b) THEN NaN
             ELSE Frac(a[1] * b[2], a[2] * b[1])

Lt(a, b) == ~IsNaN(a) /\ ~IsNaN(b) /\ a[1] * b[2] < b[1] * a[2]
Le(a, b) == ~IsNaN(a) /\ ~IsNaN(b) /\ a[1] * b[2] <= b[1] * a[2]
Gt(a, b) == Lt(b, a)
Ge(a, b) == Le(b, a)

\* Python's max(a, b): b unless a > b
Max(a, b) == IF Gt(a, b) THEN a ELSE b

(***************************************************************************)
(* src/src/config.py                                                       *)
(***************************************************************************)
STOP_LOSS_ATR_MULTIPLIER == Frac(2, 1)
TAKE_PROFIT1_ATR_MULTIPLIER == Frac(3, 2)
TAKE_PROFIT2_ATR_MULTIPLIER == Frac(3, 1)

\* Backtest.__init__ defaults
initial_capital == F(10000)
position_size_fraction == Frac(1, 10)

(***************************************************************************)
(* The input table: OHLCV bars with the indicator columns attached         *)
(* (TechnicalIndicators.add_indicators is outside the model).              *)
(***************************************************************************)
CloseVals == {94, 97, 100, 104}
AtrVals == {0, 2}

\* indicator readings of one bar: fast average above or below the slow one,
\* the MACD line on the same side of its signal line
IndicatorVals ==
    { [ema_fast |-> F(101), ema_slow |-> F(100), macd |-> F(1), macd_signal |-> F(0),
       macd_histogram |-> F(1), vwap |-> F(100),
       rsi_bullish_divergence |-> FALSE, rsi_bearish_divergence |-> FALSE],
      [ema_fast |-> F(99), ema_slow |-> F(100), macd |-> F(-1), macd_signal |-> F(0),
       macd_histogram |-> F(-1), vwap |-> F(100),
       rsi_bullish_divergence |-> FALSE, rsi_bearish_divergence |-> FALSE] }

Bars == { [close |-> F(c), atr |-> F(a)] @@ ind :
            c \in CloseVals, a \in AtrVals, ind \in IndicatorVals }

\* row 0 is read only through its indicator columns
FirstBars == { b \in Bars : b.close = F(100) /\ b.atr = F(2) }

Rows == 0 .. (MaxBars - 1)

\* len(data)
NRows == Cardinality(DOMAIN data)

(***************************************************************************)
(* strategy.py: the entry and exit conditions                              *)
(***************************************************************************)
ema_bullish(d, i) == /\ Le(d[i-1].ema_fast, d[i-1].ema_slow)
                     /\ Gt(d[i].ema_fast, d[i].ema_slow)

ema_bearish(d, i) == /\ Ge(d[i-1].ema_fast, d[i-1].ema_slow)
                     /\ Lt(d[i].ema_fast, d[i].ema_slow)

macd_bullish(d, i) == /\ Le(d[i-1].macd, d[i-1].macd_signal)
                      /\ Gt(d[i].macd, d[i].macd_signal)

\* mutant: the bearish MACD crossover without the test on the row itself
macd_bearish_unfinished(d, i) == Ge(d[i-1].macd, d[i-1].macd_signal)

macd_bearish(d, i) == /\ Ge(d[i-1].macd, d[i-1].macd_signal)
                      /\ Lt(d[i].macd, d[i].macd_signal)

check_long_condition_1(d, i) ==
    IF i < 1 THEN FALSE
    ELSE Gt(d[i].close, d[i].vwap) /\ ema_bullish(d, i) /\ macd_bullish(d, i)

check_long_condition_2(d, i) ==
    IF i < 1 THEN FALSE
    ELSE d[i].rsi_bullish_divergence /\ macd_bullish(d, i)

check_long_condition_3(d, i) ==
    IF i < 1 THEN FALSE
    ELSE ema_bullish(d, i) /\ macd_bullish(d, i)

check_short_condition_1(d, i) ==
    IF i < 1 THEN FALSE
    ELSE /\ Lt(d[i].close, d[i].vwap)
         /\ ema_bearish(d, i)
         /\ macd_bearish(d, i)
         /\ Lt(d[i].macd_histogram, F(0))

check_short_condition_2(d, i) ==
    IF i < 1 THEN FALSE
    ELSE d[i].rsi_bearish_divergence /\ macd_bearish(d, i)

check_short_condition_3(d, i) ==
    IF i < 1 THEN FALSE
    ELSE ema_bearish(d, i) /\ macd_bearish(d, i)

\* mutant: the fast average must have been strictly above the slow one
check_ema_bearish_crossover_strict(d, i) ==
    IF i < 1 THEN FALSE
    ELSE /\ Gt(d[i-1].ema_fast, d[i-1].ema_slow)
         /\ Lt(d[i].ema_fast, d[i].ema_slow)

check_ema_bearish_crossover(d, i) ==
    IF i < 1 THEN FALSE ELSE ema_bearish(d, i)

check_ema_bullish_crossover(d, i) ==
    IF i < 1 THEN FALSE ELSE ema_bullish(d, i)

(***************************************************************************)
(* strategy.py: generate_signals                                           *)
(***************************************************************************)
\* mutant: the short_signal column initialised to True
SignalColumns_short_set ==
    [long_signal |-> FALSE, short_signal |-> TRUE,
     exit_long_signal |-> FALSE, exit_short_signal |-> FALSE,
     signal_trigger |-> ""]

SignalColumns ==
    [long_signal |-> FALSE, short_signal |-> FALSE,
     exit_long_signal |-> FALSE, exit_short_signal |-> FALSE,
     signal_trigger |-> ""]

\* mutant: the long rules tested in the order 3, 2, 1 and the short rules too
EntryTrigger_reversed(d, i) ==
    IF check_long_condition_3(d, i) THEN "LONG_COND3"
    ELSE IF check_long_condition_2(d, i) THEN "LONG_COND2"
    ELSE IF check_long_condition_1(d, i) THEN "LONG_COND1"
    ELSE IF check_short_condition_3(d, i) THEN "SHORT_COND3"
    ELSE IF check_short_condition_2(d, i) THEN "SHORT_COND2"
    ELSE IF check_short_condition_1(d, i) THEN "SHORT_COND1"
    ELSE ""

\* mutant: the entry rules read one row ahead wherever the table has one
EntryTrigger_lookahead(d, i) ==
    LET j == IF (i + 1) \in DOMAIN d THEN i + 1 ELSE i IN
    IF check_long_condition_1(d, j) THEN "LONG_COND1"
    ELSE IF check_long_condition_2(d, j) THEN "LONG_COND2"
    ELSE IF check_long_condition_3(d, j) THEN "LONG_COND3"
    ELSE IF check_short_condition_1(d, j) THEN "SHORT_COND1"
    ELSE IF check_short_condition_2(d, j) THEN "SHORT_COND2"
    ELSE IF check_short_condition_3(d, j) THEN "SHORT_COND3"
    ELSE ""

\* the entry rule that fires on row i while the tracker is NEUTRAL, "" if none
EntryTrigger(d, i) ==
    IF check_long_condition_1(d, i) THEN "LONG_COND1"
    ELSE IF check_long_condition_2(d, i) THEN "LONG_COND2"
    ELSE IF check_long_condition_3(d, i) THEN "LONG_COND3"
    ELSE IF check_short_condition_1(d, i) THEN "SHORT_COND1"
    ELSE IF check_short_condition_2(d, i) THEN "SHORT_COND2"
    ELSE IF check_short_condition_3(d, i) THEN "SHORT_COND3"
    ELSE ""

LongTriggers == {"LONG_COND1", "LONG_COND2", "LONG_COND3"}
ShortTriggers == {"SHORT_COND1", "SHORT_COND2", "SHORT_COND3"}

GenerateSignalsBegin ==
    /\ pc = "start"
    /\ data' = [i \in DOMAIN data |-> data[i] @@ SignalColumns]
    /\ sg' = [current_position |-> "NEUTRAL", entry_price |-> F(0), entry_idx |-> 0]
    /\ pc' = "signals"
    /\ idx' = 1
    /\ UNCHANGED <<rm, bt, trades, live, report, self_data>>

\* mutant: the entry rules evaluated on every row, whatever the tracker holds
GenerateSignalsStep_untracked ==
    /\ pc = "signals"
    /\ idx < NRows
    /\ LET t == EntryTrigger(data, idx) IN
       IF t \in LongTriggers THEN
            /\ data' = [data EXCEPT ![idx].long_signal = TRUE,
                                    ![idx].signal_trigger = t]
            /\ sg' = [current_position |-> "LONG",
                      entry_price |-> data[idx].close, entry_idx |-> idx]
       ELSE IF t \in ShortTriggers THEN
            /\ data' = [data EXCEPT ![idx].short_signal = TRUE,
                                    ![idx].signal_trigger = t]
            /\ sg' = [current_position |-> "SHORT",
                      entry_price |-> data[idx].close, entry_idx |-> idx]
       ELSE UNCHANGED <<data, sg>>
    /\ idx' = idx + 1
    /\ UNCHANGED <<pc, rm, bt, trades, live, report, self_data>>

GenerateSignalsStep ==
    /\ pc = "signals"
    /\ idx < NRows
    /\ LET t == EntryTrigger(data, idx) IN
       IF sg.current_position = "NEUTRAL" THEN
            IF t \in LongTriggers THEN
                /\ data' = [data EXCEPT ![idx].long_signal = TRUE,
                                        ![idx].signal_trigger = t]
                /\ sg' = [current_position |-> "LONG",
                          entry_price |-> data[idx].close, entry_idx |-> idx]
            ELSE IF t \in ShortTriggers THEN
                /\ data' = [data EXCEPT ![idx].short_signal = TRUE,
                                        ![idx].signal_trigger = t]
                /\ sg' = [current_position |-> "SHORT",
                          entry_price |-> data[idx].close, entry_idx |-> idx]
            ELSE UNCHANGED <<data, sg>>
       ELSE IF sg.current_position = "LONG" THEN
            IF check_ema_bearish_crossover(data, idx) THEN
                /\ data' = [data EXCEPT ![idx].exit_long_signal = TRUE,
                                        ![idx].signal_trigger = "EXIT_LONG_EMA"]
                /\ sg' = [sg EXCEPT !.current_position = "NEUTRAL"]
            ELSE UNCHANGED <<data, sg>>
       ELSE
            IF check_ema_bullish_crossover(data, idx) THEN
                /\ data' = [data EXCEPT ![idx].exit_short_signal = TRUE,
                                        ![idx].signal_trigger = "EXIT_SHORT_EMA"]
                /\ sg' = [sg EXCEPT !.current_position = "NEUTRAL"]
            ELSE UNCHANGED <<data, sg>>
    /\ idx' = idx + 1
    /\ UNCHANGED <<pc, rm, bt, trades, live, report, self_data>>

(***************************************************************************)
(* risk_management.py: levels and hit tests                                *)
(***************************************************************************)
\* mutant: the SHORT stop-loss on the LONG side of the entry
calculate_stop_loss_level_one_sided(entry_price, atr, position) ==
    IF position = "LONG" \/ position = "SHORT"
    THEN Sub(entry_price, Mul(atr, STOP_LOSS_ATR_MULTIPLIER))
    ELSE NaN

calculate_stop_loss_level(entry_price, atr, position) ==
    IF position = "LONG" THEN Sub(entry_price, Mul(atr, STOP_LOSS_ATR_MULTIPLIER))
    ELSE IF position = "SHORT" THEN Add(entry_price, Mul(atr, STOP_LOSS_ATR_MULTIPLIER))
    ELSE NaN

\* mutant: the two take-profit multipliers swapped
calculate_take_profit_levels_swapped(entry_price, atr, position) ==
    IF position = "LONG" THEN
        <<Add(entry_price, Mul(atr, TAKE_PROFIT2_ATR_MULTIPLIER)),
          Add(entry_price, Mul(atr, TAKE_PROFIT1_ATR_MULTIPLIER))>>
    ELSE IF position = "SHORT" THEN
        <<Sub(entry_price, Mul(atr, TAKE_PROFIT2_ATR_MULTIPLIER)),
          Sub(entry_price, Mul(atr, TAKE_PROFIT1_ATR_MULTIPLIER))>>
    ELSE <<NaN, NaN>>

calculate_take_profit_levels(entry_price, atr, position) ==
    IF position = "LONG" THEN
        <<Add(entry_price, Mul(atr, TAKE_PROFIT1_ATR_MULTIPLIER)),
          Add(entry_price, Mul(atr, TAKE_PROFIT2_ATR_MULTIPLIER))>>
    ELSE IF position = "SHORT" THEN
        <<Sub(entry_price, Mul(atr, TAKE_PROFIT1_ATR_MULTIPLIER)),
          Sub(entry_price, Mul(atr, TAKE_PROFIT2_ATR_MULTIPLIER))>>
    ELSE <<NaN, NaN>>

\* mutant: a close exactly on the stop-loss level is not a hit
check_stop_loss_hit_strict(current_price, stop_loss_level, position) ==
    IF position = "LONG" THEN Lt(current_price, stop_loss_level)
    ELSE IF position = "SHORT" THEN Gt(current_price, stop_loss_level)
    ELSE FALSE

check_stop_loss_hit(current_price, stop_loss_level, position) ==
    IF position = "LONG" THEN Le(current_price, stop_loss_level)
    ELSE IF position = "SHORT" THEN Ge(current_price, stop_loss_level)
    ELSE FALSE

check_take_profit_hit(current_price, take_profit_level, position) ==
    IF position = "LONG" THEN Ge(current_price, take_profit_level)
    ELSE IF position = "SHORT" THEN Le(current_price, take_profit_level)
    ELSE FALSE

(***************************************************************************)
(* risk_management.py: apply_risk_management                               *)
(***************************************************************************)
RiskColumns ==
    [stop_loss |-> NaN, take_profit1 |-> NaN, take_profit2 |-> NaN,
     position |-> "None", entry_price |-> NaN, exit_price |-> NaN,
     exit_reason |-> "", tp1_hit |-> FALSE, tp2_hit |-> FALSE, sl_hit |-> FALSE]

RiskLocals ==
    [current_position |-> "NEUTRAL", entry_price |-> F(0), entry_idx |-> 0,
     stop_loss |-> F(0), take_profit1 |-> F(0), take_profit2 |-> F(0),
     tp1_exit_executed |-> FALSE]

\* mutant: the entry signal of the row consumed when the position is written
PositionRow_clears_signal(row, r) ==
    [row EXCEPT !.position = r.current_position,
                !.entry_price = r.entry_price,
                !.stop_loss = r.stop_loss,
                !.take_profit1 = r.take_profit1,
                !.take_profit2 = r.take_profit2,
                !.long_signal = FALSE,
                !.short_signal = FALSE]

\* the position columns of a row of an open position
PositionRow(row, r) ==
    [row EXCEPT !.position = r.current_position,
                !.entry_price = r.entry_price,
                !.stop_loss = r.stop_loss,
                !.take_profit1 = r.take_profit1,
                !.take_profit2 = r.take_profit2]

\* mutant: tp1_exit_executed not reset when a position is opened
OpenPosition_keeps_tp1(row, i, position) ==
    LET entry_price == row.close
        atr == row.atr
        tps == calculate_take_profit_levels(entry_price, atr, position)
    IN  [current_position |-> position, entry_price |-> entry_price, entry_idx |-> i,
         stop_loss |-> calculate_stop_loss_level(entry_price, atr, position),
         take_profit1 |-> tps[1], take_profit2 |-> tps[2],
         tp1_exit_executed |-> rm.tp1_exit_executed]

\* the locals after opening a position on row i
OpenPosition(row, i, position) ==
    LET entry_price == row.close
        atr == row.atr
        tps == calculate_take_profit_levels(entry_price, atr, position)
    IN  [current_position |-> position, entry_price |-> entry_price, entry_idx |-> i,
         stop_loss |-> calculate_stop_loss_level(entry_price, atr, position),
         take_profit1 |-> tps[1], take_profit2 |-> tps[2],
         tp1_exit_executed |-> FALSE]

\* the strategy exit signal of the open position's direction
ExitSignal(row, position) ==
    IF position = "LONG" THEN row.exit_long_signal ELSE row.exit_short_signal

\* mutant: take-profit-2 tested before take-profit-1
ManageBranch_tp2_first(row, r) ==
    LET current_price == row.close IN
    IF check_stop_loss_hit(current_price, r.stop_loss, r.current_position)
        THEN "STOP_LOSS"
    ELSE IF check_take_profit_hit(current_price, r.take_profit2, r.current_position)
        THEN "TAKE_PROFIT2"
    ELSE IF /\ ~r.tp1_exit_executed
            /\ check_take_profit_hit(current_price, r.take_profit1, r.current_position)
        THEN "TAKE_PROFIT1"
    ELSE IF ExitSignal(row, r.current_position)
        THEN "STRATEGY_EXIT"
    ELSE "HOLD"

\* mutant: take-profit-1 tested without looking at tp1_exit_executed
ManageBranch_tp1_again(row, r) ==
    LET current_price == row.close IN
    IF check_stop_loss_hit(current_price, r.stop_loss, r.current_position)
        THEN "STOP_LOSS"
    ELSE IF check_take_profit_hit(current_price, r.take_profit1, r.current_position)
        THEN "TAKE_PROFIT1"
    ELSE IF check_take_profit_hit(current_price, r.take_profit2, r.current_position)
        THEN "TAKE_PROFIT2"
    ELSE IF ExitSignal(row, r.current_position)
        THEN "STRATEGY_EXIT"
    ELSE "HOLD"

\* the branch of the if/elif chain taken on a row of an open position
ManageBranch(row, r) ==
    LET current_price == row.close IN
    IF check_stop_loss_hit(current_price, r.stop_loss, r.current_position)
        THEN "STOP_LOSS"
    ELSE IF /\ ~r.tp1_exit_executed
            /\ check_take_profit_hit(current_price, r.take_profit1, r.current_position)
        THEN "TAKE_PROFIT1"
    ELSE IF check_take_profit_hit(current_price, r.take_profit2, r.current_position)
        THEN "TAKE_PROFIT2"
    ELSE IF ExitSignal(row, r.current_position)
        THEN "STRATEGY_EXIT"
    ELSE "HOLD"

\* mutant: the take-profit-1 branch closes the position like the others
ManagePosition_tp1_closes(row, r) ==
    LET carried == PositionRow(row, r)
        branch == ManageBranch(row, r)
    IN  IF branch = "STOP_LOSS" THEN
            <<[carried EXCEPT !.exit_price = r.stop_loss,
                              !.exit_reason = "STOP_LOSS",
                              !.sl_hit = TRUE],
              [r EXCEPT !.current_position = "NEUTRAL"]>>
        ELSE IF branch = "TAKE_PROFIT1" THEN
            <<[carried EXCEPT !.tp1_hit = TRUE],
              [r EXCEPT !.tp1_exit_executed = TRUE, !.current_position = "NEUTRAL"]>>
        ELSE IF branch = "TAKE_PROFIT2" THEN
            <<[carried EXCEPT !.exit_price = r.take_profit2,
                              !.exit_reason = "TAKE_PROFIT2",
                              !.tp2_hit = TRUE],
              [r EXCEPT !.current_position = "NEUTRAL"]>>
        ELSE IF branch = "STRATEGY_EXIT" THEN
            <<[carried EXCEPT !.exit_price = row.close,
                              !.exit_reason = "STRATEGY_EXIT"],
              [r EXCEPT !.current_position = "NEUTRAL"]>>
        ELSE <<carried, r>>

\* mutant: a row that closes a position opens a new one on its entry signal
ManagePosition_reopens(row, r) ==
    LET carried == PositionRow(row, r)
        branch == ManageBranch(row, r)
        after == IF row.long_signal THEN OpenPosition(row, idx, "LONG")
                 ELSE IF row.short_signal THEN OpenPosition(row, idx, "SHORT")
                 ELSE [r EXCEPT !.current_position = "NEUTRAL"]
    IN  IF branch = "STOP_LOSS" THEN
            <<[carried EXCEPT !.exit_price = r.stop_loss,
                              !.exit_reason = "STOP_LOSS",
                              !.sl_hit = TRUE],
              after>>
        ELSE IF branch = "TAKE_PROFIT1" THEN
            <<[carried EXCEPT !.tp1_hit = TRUE],
              [r EXCEPT !.tp1_exit_executed = TRUE]>>
        ELSE IF branch = "TAKE_PROFIT2" THEN
            <<[carried EXCEPT !.exit_price = r.take_profit2,
                              !.exit_reason = "TAKE_PROFIT2",
                              !.tp2_hit = TRUE],
              after>>
        ELSE IF branch = "STRATEGY_EXIT" THEN
            <<[carried EXCEPT !.exit_price = row.close,
                              !.exit_reason = "STRATEGY_EXIT"],
              after>>
        ELSE <<carried, r>>

\* mutant: the take-profit-1 row records take_profit1 as its exit_price
ManagePosition_tp1_priced(row, r) ==
    LET carried == PositionRow(row, r)
        branch == ManageBranch(row, r)
    IN  IF branch = "STOP_LOSS" THEN
            <<[carried EXCEPT !.exit_price = r.stop_loss,
                              !.exit_reason = "STOP_LOSS",
                              !.sl_hit = TRUE],
              [r EXCEPT !.current_position = "NEUTRAL"]>>
        ELSE IF branch = "TAKE_PROFIT1" THEN
            <<[carried EXCEPT !.tp1_hit = TRUE, !.exit_price = r.take_profit1],
              [r EXCEPT !.tp1_exit_executed = TRUE]>>
        ELSE IF branch = "TAKE_PROFIT2" THEN
            <<[carried EXCEPT !.exit_price = r.take_profit2,
                              !.exit_reason = "TAKE_PROFIT2",
                              !.tp2_hit = TRUE],
              [r EXCEPT !.current_position = "NEUTRAL"]>>
        ELSE IF branch = "STRATEGY_EXIT" THEN
            <<[carried EXCEPT !.exit_price = row.close,
                              !.exit_reason = "STRATEGY_EXIT"],
              [r EXCEPT !.current_position = "NEUTRAL"]>>
        ELSE <<carried, r>>

\* the row and the locals after a row of an open position
ManagePosition(row, r) ==
    LET carried == PositionRow(row, r)
        branch == ManageBranch(row, r)
    IN  IF branch = "STOP_LOSS" THEN
            <<[carried EXCEPT !.exit_price = r.stop_loss,
                              !.exit_reason = "STOP_LOSS",
                              !.sl_hit = TRUE],
              [r EXCEPT !.current_position = "NEUTRAL"]>>
        ELSE IF branch = "TAKE_PROFIT1" THEN
            <<[carried EXCEPT !.tp1_hit = TRUE],
              [r EXCEPT !.tp1_exit_executed = TRUE]>>
        ELSE IF branch = "TAKE_PROFIT2" THEN
            <<[carried EXCEPT !.exit_price = r.take_profit2,
                              !.exit_reason = "TAKE_PROFIT2",
                              !.tp2_hit = TRUE],
              [r EXCEPT !.current_position = "NEUTRAL"]>>
        ELSE IF branch = "STRATEGY_EXIT" THEN
            <<[carried EXCEPT !.exit_price = row.close,
                              !.exit_reason = "STRATEGY_EXIT"],
              [r EXCEPT !.current_position = "NEUTRAL"]>>
        ELSE <<carried, r>>

\* mutant: the risk machine started while the signal loop is still running
ApplyRiskManagementBegin_early ==
    /\ pc = "signals"
    /\ data' = [i \in DOMAIN data |-> data[i] @@ RiskColumns]
    /\ rm' = RiskLocals
    /\ pc' = "risk"
    /\ idx' = 1
    /\ UNCHANGED <<sg, bt, trades, live, report, self_data>>

ApplyRiskManagementBegin ==
    /\ pc = "signals"
    /\ idx = NRows
    /\ data' = [i \in DOMAIN data |-> data[i] @@ RiskColumns]
    /\ rm' = RiskLocals
    /\ pc' = "risk"
    /\ idx' = 1
    /\ UNCHANGED <<sg, bt, trades, live, report, self_data>>

ApplyRiskManagementStep ==
    /\ pc = "risk"
    /\ idx < NRows
    /\ LET row == data[idx] IN
       IF rm.current_position = "NEUTRAL" THEN
            IF row.long_signal THEN
                /\ rm' = OpenPosition(row, idx, "LONG")
                /\ data' = [data EXCEPT ![idx] = PositionRow(row, rm')]
            ELSE IF row.short_signal THEN
                /\ rm' = OpenPosition(row, idx, "SHORT")
                /\ data' = [data EXCEPT ![idx] = PositionRow(row, rm')]
            ELSE UNCHANGED <<data, rm>>
       ELSE
            LET res == ManagePosition(row, rm) IN
            /\ data' = [data EXCEPT ![idx] = res[1]]
            /\ rm' = res[2]
    /\ idx' = idx + 1
    /\ UNCHANGED <<pc, sg, bt, trades, live, report, self_data>>

(***************************************************************************)
(* backtest.py: _calculate_pnl                                             *)
(***************************************************************************)
\* mutant: the max_equity column initialised to 0.0
PnlColumns_no_max ==
    [pnl |-> F(0), cumulative_pnl |-> F(0), equity |-> initial_capital,
     drawdown |-> F(0), max_equity |-> F(0)]

PnlColumns ==
    [pnl |-> F(0), cumulative_pnl |-> F(0), equity |-> initial_capital,
     drawdown |-> F(0), max_equity |-> initial_capital]

PnlLocals ==
    [current_position |-> "None", position_size |-> F(0), entry_price |-> F(0)]

\* pd.isna on the position column
isna(position) == position = "None"

\* data['pnl'].iloc[:i+1].sum()
RECURSIVE SumPnl(_, _)
SumPnl(d, i) == IF i < 0 THEN F(0) ELSE Add(SumPnl(d, i - 1), d[i].pnl)

\* data['equity'].iloc[:i+1].max()
RECURSIVE MaxEquity(_, _)
MaxEquity(d, i) == IF i = 0 THEN d[0].equity ELSE Max(d[i].equity, MaxEquity(d, i - 1))

\* lines 93-97: the locals after the new-position test on row i
DetectOpen(d, i, b) ==
    IF isna(d[i-1].position) /\ ~isna(d[i].position) THEN
        [current_position |-> d[i].position,
         entry_price |-> d[i].entry_price,
         position_size |-> Div(Mul(position_size_fraction, d[i-1].equity),
                               d[i].entry_price)]
    ELSE b

\* lines 105-108: P&L of a full exit
ExitPnl(b, exit_price) ==
    IF b.current_position = "LONG"
    THEN Mul(b.position_size, Sub(exit_price, b.entry_price))
    ELSE Mul(b.position_size, Sub(b.entry_price, exit_price))

\* mutant: the TP1 tranche realized on the whole size
PartialPnl_whole_size(b, take_profit1) ==
    IF b.current_position = "LONG"
    THEN Mul(b.position_size, Sub(take_profit1, b.entry_price))
    ELSE Mul(b.position_size, Sub(b.entry_price, take_profit1))

\* lines 135-138: P&L of the TP1 tranche
PartialPnl(b, take_profit1) ==
    IF b.current_position = "LONG"
    THEN Mul(Mul(b.position_size, Frac(1, 2)), Sub(take_profit1, b.entry_price))
    ELSE Mul(Mul(b.position_size, Frac(1, 2)), Sub(b.entry_price, take_profit1))

Trade(b, i, exit_price, pnl, exit_reason) ==
    [entry_time |-> i - 1, exit_time |-> i, position |-> b.current_position,
     entry_price |-> b.entry_price, exit_price |-> exit_price, pnl |-> pnl,
     exit_reason |-> exit_reason]

\* mutant: a row with a strategy exit signal is settled at its close, whether or
\* not the risk machine recorded an exit on it
Settle_on_signal(d, i, b, ts) ==
    IF d[i].exit_long_signal \/ d[i].exit_short_signal THEN
        LET pnl == ExitPnl(b, d[i].close) IN
        <<pnl, PnlLocals, Append(ts, Trade(b, i, d[i].close, pnl, "STRATEGY_EXIT"))>>
    ELSE IF ~isna(d[i].position) /\ Gt(d[i].exit_price, F(0)) THEN
        LET pnl == ExitPnl(b, d[i].exit_price) IN
        <<pnl, PnlLocals, Append(ts, Trade(b, i, d[i].exit_price, pnl, d[i].exit_reason))>>
    ELSE IF ~isna(d[i].position) /\ d[i].tp1_hit THEN
        LET pnl == PartialPnl(b, d[i].take_profit1) IN
        <<pnl,
          [b EXCEPT !.position_size = Mul(b.position_size, Frac(1, 2))],
          Append(ts, Trade(b, i, d[i].take_profit1, pnl, "TAKE_PROFIT1"))>>
    ELSE <<d[i].pnl, b, ts>>

\* lines 99-156: <<pnl of row i, locals, trades>> after the exit tests on row i
Settle(d, i, b, ts) ==
    IF ~isna(d[i].position) /\ Gt(d[i].exit_price, F(0)) THEN
        LET pnl == ExitPnl(b, d[i].exit_price) IN
        <<pnl, PnlLocals, Append(ts, Trade(b, i, d[i].exit_price, pnl, d[i].exit_reason))>>
    ELSE IF ~isna(d[i].position) /\ d[i].tp1_hit THEN
        LET pnl == PartialPnl(b, d[i].take_profit1) IN
        <<pnl,
          [b EXCEPT !.position_size = Mul(b.position_size, Frac(1, 2))],
          Append(ts, Trade(b, i, d[i].take_profit1, pnl, "TAKE_PROFIT1"))>>
    ELSE <<d[i].pnl, b, ts>>

\* mutant: the cumulative sum taken over iloc[:i], one row short
EquityRow_short_slice(d, i) ==
    LET d1 == [d EXCEPT ![i].cumulative_pnl = SumPnl(d, i - 1)]
        d2 == [d1 EXCEPT ![i].equity = Add(initial_capital, d1[i].cumulative_pnl)]
        d3 == [d2 EXCEPT ![i].max_equity = Max(MaxEquity(d2, i), d2[i-1].max_equity)]
        drawdown_pct ==
            IF Gt(d3[i].max_equity, F(0))
            THEN Mul(Div(Sub(d3[i].max_equity, d3[i].equity), d3[i].max_equity), F(100))
            ELSE F(0)
    IN  [d3 EXCEPT ![i].drawdown = drawdown_pct]

\* mutant: equity taken as the cumulative P&L alone, without initial_capital
EquityRow_no_capital(d, i) ==
    LET d1 == [d EXCEPT ![i].cumulative_pnl = SumPnl(d, i)]
        d2 == [d1 EXCEPT ![i].equity = d1[i].cumulative_pnl]
        d3 == [d2 EXCEPT ![i].max_equity = Max(MaxEquity(d2, i), d2[i-1].max_equity)]
        drawdown_pct ==
            IF Gt(d3[i].max_equity, F(0))
            THEN Mul(Div(Sub(d3[i].max_equity, d3[i].equity), d3[i].max_equity), F(100))
            ELSE F(0)
    IN  [d3 EXCEPT ![i].drawdown = drawdown_pct]

\* mutant: the running maximum not updated with the row's own equity
EquityRow_stale_max(d, i) ==
    LET d1 == [d EXCEPT ![i].cumulative_pnl = SumPnl(d, i)]
        d2 == [d1 EXCEPT ![i].equity = Add(initial_capital, d1[i].cumulative_pnl)]
        d3 == [d2 EXCEPT ![i].max_equity = d2[i-1].max_equity]
        drawdown_pct ==
            IF Gt(d3[i].max_equity, F(0))
            THEN Mul(Div(Sub(d3[i].max_equity, d3[i].equity), d3[i].max_equity), F(100))
            ELSE F(0)
    IN  [d3 EXCEPT ![i].drawdown = drawdown_pct]

\* lines 158-165: the equity columns of row i
EquityRow(d, i) ==
    LET d1 == [d EXCEPT ![i].cumulative_pnl = SumPnl(d, i)]
        d2 == [d1 EXCEPT ![i].equity = Add(initial_capital, d1[i].cumulative_pnl)]
        d3 == [d2 EXCEPT ![i].max_equity = Max(MaxEquity(d2, i), d2[i-1].max_equity)]
        drawdown_pct ==
            IF Gt(d3[i].max_equity, F(0))
            THEN Mul(Div(Sub(d3[i].max_equity, d3[i].equity), d3[i].max_equity), F(100))
            ELSE F(0)
    IN  [d3 EXCEPT ![i].drawdown = drawdown_pct]

CalculatePnlBegin ==
    /\ pc = "risk"
    /\ idx = NRows
    /\ data' = [i \in DOMAIN data |-> data[i] @@ PnlColumns]
    /\ bt' = PnlLocals
    /\ trades' = <<>>
    /\ pc' = "pnl"
    /\ idx' = 1
    /\ UNCHANGED <<sg, rm, live, report, self_data>>

CalculatePnlStep ==
    /\ pc = "pnl"
    /\ idx < NRows
    /\ LET b1 == DetectOpen(data, idx, bt)
           res == Settle(data, idx, b1, trades)
       IN  /\ data' = EquityRow([data EXCEPT ![idx].pnl = res[1]], idx)
           /\ bt' = res[2]
           /\ trades' = res[3]
    /\ idx' = idx + 1
    /\ UNCHANGED <<pc, sg, rm, live, report, self_data>>

CalculatePnlReturn ==
    /\ pc = "pnl"
    /\ idx = NRows
    /\ pc' = "done"
    /\ UNCHANGED <<data, idx, sg, rm, bt, trades, live, report, self_data>>

(***************************************************************************)
(* backtest.py: generate_report                                            *)
(***************************************************************************)
\* float('inf'): held by the report only, no arithmetic is done on it
Inf == <<1, 0>>

\* abs() of a float
FAbs(x) == IF x[1] < 0 THEN <<-x[1], x[2]>> ELSE x

\* sum([t['pnl'] for t in ts])
RECURSIVE SumTrades(_)
SumTrades(ts) == IF ts = <<>> THEN F(0) ELSE Add(Head(ts).pnl, SumTrades(Tail(ts)))

\* self.results['drawdown'].max()
RECURSIVE MaxDrawdown(_, _)
MaxDrawdown(d, i) == IF i = 0 THEN d[0].drawdown
                     ELSE Max(d[i].drawdown, MaxDrawdown(d, i - 1))

IsWinning(t) == Gt(t.pnl, F(0))
IsLosing(t) == Le(t.pnl, F(0))

\* mutant: the gross loss taken with its sign
profit_factor_signed(ts) ==
    LET gross_profit == SumTrades(SelectSeq(ts, IsWinning))
        gross_loss == SumTrades(SelectSeq(ts, IsLosing))
    IN  IF gross_loss # F(0) THEN Div(gross_profit, gross_loss) ELSE Inf

\* lines 218-221
profit_factor(ts) ==
    LET gross_profit == SumTrades(SelectSeq(ts, IsWinning))
        gross_loss == FAbs(SumTrades(SelectSeq(ts, IsLosing)))
    IN  IF gross_loss # F(0) THEN Div(gross_profit, gross_loss) ELSE Inf

\* lines 183-239: the metrics of a finished run
generate_report(d, ts) ==
    LET total_pnl == SumPnl(d, Cardinality(DOMAIN d) - 1)
        final_equity == Add(initial_capital, total_pnl)
        num_trades == Len(ts)
        winning_trades == SelectSeq(ts, IsWinning)
        losing_trades == SelectSeq(ts, IsLosing)
        num_winning == Len(winning_trades)
        num_losing == Len(losing_trades)
    IN  IF num_trades = 0 THEN
            [total_pnl |-> F(0), final_equity |-> initial_capital, returns |-> F(0),
             num_trades |-> 0, win_rate |-> F(0), avg_profit_per_trade |-> F(0),
             avg_profit_winning |-> F(0), avg_loss_losing |-> F(0),
             profit_factor |-> F(0), max_drawdown |-> F(0)]
        ELSE
            [total_pnl |-> total_pnl,
             final_equity |-> final_equity,
             returns |-> Mul(Sub(Div(final_equity, initial_capital), F(1)), F(100)),
             num_trades |-> num_trades,
             win_rate |-> Mul(Frac(num_winning, num_trades), F(100)),
             avg_profit_per_trade |-> Div(total_pnl, F(num_trades)),
             avg_profit_winning |->
                IF num_winning > 0
                THEN Div(SumTrades(winning_trades), F(num_winning)) ELSE F(0),
             avg_loss_losing |->
                IF num_losing > 0
                THEN Div(SumTrades(losing_trades), F(num_losing)) ELSE F(0),
             profit_factor |-> profit_factor(ts),
             max_drawdown |-> MaxDrawdown(d, Cardinality(DOMAIN d) - 1)]

\* generate_report on a run that has results (before run() it returns None)
GenerateReport ==
    /\ pc = "done"
    /\ report' = generate_report(data, trades)
    /\ pc' = "reported"
    /\ UNCHANGED <<data, idx, sg, rm, bt, trades, live, self_data>>

(***************************************************************************)
(* The pipeline                                                            *)
(***************************************************************************)
NoLocals == [unset |-> TRUE]

Init ==
    /\ data \in { d \in [Rows -> Bars] : d[0] \in FirstBars }
    /\ pc = "start"
    /\ idx = 0
    /\ sg = NoLocals
    /\ rm = NoLocals
    /\ bt = NoLocals
    /\ trades = <<>>
    /\ live = NoLocals
    /\ report = NoLocals
    /\ self_data = NoLocals

\* the same pipeline over a table one row longer, the ATR column constant
InitLong ==
    /\ data \in { d \in [0 .. MaxBars -> { b \in Bars : b.atr = F(2) }] :
                        d[0] \in FirstBars }
    /\ pc = "start"
    /\ idx = 0
    /\ sg = NoLocals
    /\ rm = NoLocals
    /\ bt = NoLocals
    /\ trades = <<>>
    /\ live = NoLocals
    /\ report = NoLocals
    /\ self_data = NoLocals

Next ==
    \/ GenerateSignalsBegin
    \/ GenerateSignalsStep
    \/ ApplyRiskManagementBegin
    \/ ApplyRiskManagementStep
    \/ CalculatePnlBegin
    \/ CalculatePnlStep
    \/ CalculatePnlReturn
    \/ GenerateReport

Spec == Init /\ [][Next]_vars

SpecLong == InitLong /\ [][Next]_vars

\* generate_signals alone, as live_trade calls it, over a table one row shorter
\* whose indicator columns vary one by one: the fast average below, on or above
\* the slow one, the MACD line below, on or above its signal line, the close
\* below or above the VWAP, the divergence flags both unset or both set
SignalBars ==
    { [close |-> F(c), atr |-> F(2),
       ema_fast |-> F(e), ema_slow |-> F(100),
       macd |-> F(m), macd_signal |-> F(0), macd_histogram |-> F(m),
       vwap |-> F(100),
       rsi_bullish_divergence |-> v, rsi_bearish_divergence |-> v] :
        c \in {99, 101}, e \in {99, 100, 101}, m \in {-1, 0, 1}, v \in BOOLEAN }

InitSignals ==
    /\ data \in { d \in [0 .. (MaxBars - 2) -> SignalBars] :
                        d[0].close = F(101) /\ ~d[0].rsi_bullish_divergence }
    /\ pc = "start"
    /\ idx = 0
    /\ sg = NoLocals
    /\ rm = NoLocals
    /\ bt = NoLocals
    /\ trades = <<>>
    /\ live = NoLocals
    /\ report = NoLocals
    /\ self_data = NoLocals

NextSignals ==
    \/ GenerateSignalsBegin
    \/ GenerateSignalsStep

SpecSignals == InitSignals /\ [][NextSignals]_vars

\* the same pipeline over bars of a collapsed market: closes of 1 and 13 with
\* an average true range of 0 or 6, left over from the fall
VolatileBars == { [close |-> F(c), atr |-> F(a)] @@ ind :
                    c \in {1, 13}, a \in {0, 6}, ind \in IndicatorVals }

InitVolatile ==
    /\ data \in { d \in [Rows -> VolatileBars] :
                        d[0].close = F(13) /\ d[0].atr = F(6) }
    /\ pc = "start"
    /\ idx = 0
    /\ sg = NoLocals
    /\ rm = NoLocals
    /\ bt = NoLocals
    /\ trades = <<>>
    /\ live = NoLocals
    /\ report = NoLocals
    /\ self_data = NoLocals

SpecVolatile == InitVolatile /\ [][Next]_vars

\* the same pipeline over the bars of the specification's scenarios: an entry
\* at close 100 with an average true range of 10, later closes of 80, 86, 121
\* and 136
ScenarioBars == { [close |-> F(c), atr |-> F(10)] @@ ind :
                    c \in {80, 86, 100, 121, 136}, ind \in IndicatorVals }

InitScenario ==
    /\ data \in { d \in [Rows -> ScenarioBars] : d[0].close = F(100) }
    /\ pc = "start"
    /\ idx = 0
    /\ sg = NoLocals
    /\ rm = NoLocals
    /\ bt = NoLocals
    /\ trades = <<>>
    /\ live = NoLocals
    /\ report = NoLocals
    /\ self_data = NoLocals

SpecScenario == InitScenario /\ [][Next]_vars

\* the same pipeline over the bars as the exchange adapter hands them over,
\* with the timestamp (the index label of the row), high, low and volume
\* columns beside the close. A bar has at most one defect: its timestamp
\* lies before the previous row's, its high lies below its low, or its
\* volume is negative. The timestamps of a table are distinct, so that a
\* write through data.loc[data.index[i], ...] reaches row i alone, as in the
\* tables without a timestamp column, whose label is the row number.
Defects == {"none", "late", "range", "volume"}

\* row i is stamped 10 * i, or 15 earlier when it comes late
OhlcvBar(i, defect, b) ==
    [timestamp |-> IF defect = "late" THEN 10 * i - 15 ELSE 10 * i,
     high |-> IF defect = "range" THEN F(93) ELSE F(105),
     low |-> IF defect = "range" THEN F(105) ELSE F(93),
     volume |-> IF defect = "volume" THEN F(-1) ELSE F(1)] @@ b

InitOhlcv ==
    /\ data \in { [i \in Rows |-> OhlcvBar(i, k[i], b[i])] :
                    k \in { x \in [Rows -> Defects] : x[0] = "none" },
                    b \in { y \in [Rows -> { z \in Bars : /\ z.atr = F(2)
                                                         /\ z.close \in {F(94), F(100)} }] :
                                y[0].close = F(100) } }
    /\ pc = "start"
    /\ idx = 0
    /\ sg = NoLocals
    /\ rm = NoLocals
    /\ bt = NoLocals
    /\ trades = <<>>
    /\ live = NoLocals
    /\ report = NoLocals
    /\ self_data = NoLocals

SpecOhlcv == InitOhlcv /\ [][Next]_vars

\* Backtest.run from its first line, over the table the caller handed over:
\* the closes of the specification's scenarios, without the indicator columns
InputTables ==
    { d \in [Rows -> { [close |-> F(c)] : c \in {80, 86, 100, 121, 136} }] :
            d[0].close = F(100) }

\* what add_indicators makes of the table it is given: the indicator columns
\* attached to its rows (the rows of the warm-up period, which its dropna
\* takes away, are not part of the tables here)
add_indicators(d) ==
    { [i \in DOMAIN d |-> d[i] @@ [atr |-> F(10)] @@ ind[i]] :
        ind \in [DOMAIN d -> IndicatorVals] }

\* line 47: add_indicators works on self.data.copy(), and self.data is as it was
RunAddIndicators ==
    /\ pc = "new"
    /\ data' \in add_indicators(self_data)
    /\ pc' = "start"
    /\ UNCHANGED <<idx, sg, rm, bt, trades, live, report, self_data>>

InitRun ==
    /\ self_data \in InputTables
    /\ data = <<>>
    /\ pc = "new"
    /\ idx = 0
    /\ sg = NoLocals
    /\ rm = NoLocals
    /\ bt = NoLocals
    /\ trades = <<>>
    /\ live = NoLocals
    /\ report = NoLocals

NextRun ==
    \/ RunAddIndicators
    \/ GenerateSignalsBegin
    \/ GenerateSignalsStep
    \/ ApplyRiskManagementBegin
    \/ ApplyRiskManagementStep
    \/ CalculatePnlBegin
    \/ CalculatePnlStep
    \/ CalculatePnlReturn
    \/ GenerateReport

SpecRun == InitRun /\ [][NextRun]_vars

(***************************************************************************)
(* main.py: live_trade. One pass of the loop body for a timeframe: the     *)
(* candles are fetched, the pass ends there when they bring no new candle, *)
(* otherwise generate_signals runs over them and the newest row decides    *)
(* the order to submit; create_order returns the order, or None when the   *)
(* exchange call raised. The passes of the two timeframes follow one       *)
(* another in any order: a timeframe whose interval has not elapsed, or    *)
(* whose fetch failed, is passed over without a trace.                     *)
(***************************************************************************)
QUANTITY == Frac(1, 1000)

TIMEFRAMES == {"5m", "15m"}

\* candles.index[-1]: the open time of the newest candle of a fetch
CandleTimes == 1 .. 2

\* the locals of live_trade (a last_candle_time of 0 is None), with the side,
\* the amount and the result of the create_order call of the running pass
\* (side "" when it made none), entered_on, the timeframe of the pass that
\* entered the position now held, net, the amount bought less the amount
\* sold by the orders the exchange accepted so far, and calls, the number of
\* create_order calls of the running pass
LiveLocals ==
    [current_position |-> "NEUTRAL", tp1_executed |-> FALSE,
     stop_loss |-> F(0), take_profit1 |-> F(0), take_profit2 |-> F(0),
     entry_price |-> F(0),
     last_candle_time |-> [tf \in TIMEFRAMES |-> 0],
     timeframe |-> "", latest_candle_time |-> 0,
     side |-> "", amount |-> F(0), order |-> FALSE,
     entered_on |-> "", net |-> F(0), calls |-> 0]

NoOrder(l) == [l EXCEPT !.side = "", !.amount = F(0), !.order = FALSE, !.calls = 0]

CreateOrder(l, side, amount, ok) ==
    [l EXCEPT !.side = side, !.amount = amount, !.order = ok,
              !.calls = @ + 1,
              !.net = IF ~ok THEN @
                      ELSE IF side = "buy" THEN Add(@, amount)
                      ELSE Sub(@, amount)]

\* lines 165-211: an entry signal while NEUTRAL
LiveEntry(row, l, position, side, ok) ==
    LET current_price == row.close
        atr == row.atr
        tps == calculate_take_profit_levels(current_price, atr, position)
        l1 == [l EXCEPT !.stop_loss =
                            calculate_stop_loss_level(current_price, atr, position),
                        !.take_profit1 = tps[1],
                        !.take_profit2 = tps[2]]
        l2 == CreateOrder(l1, side, QUANTITY, ok)
    IN  IF ok
        THEN [l2 EXCEPT !.current_position = position,
                        !.entry_price = current_price,
                        !.tp1_executed = FALSE,
                        !.entered_on = l.timeframe]
        ELSE l2

\* lines 215-242 and 256-283: the branch taken on the newest row while LONG or
\* SHORT, named by the exit_reason of a full exit
LiveBranch(row, l) ==
    LET p == l.current_position
        current_price == row.close
        exit_signal == IF p = "LONG" THEN row.exit_long_signal
                                     ELSE row.exit_short_signal
        sl_hit == check_stop_loss_hit(current_price, l.stop_loss, p)
        tp1_hit == /\ ~l.tp1_executed
                   /\ check_take_profit_hit(current_price, l.take_profit1, p)
        tp2_hit == check_take_profit_hit(current_price, l.take_profit2, p)
    IN  IF sl_hit \/ tp2_hit \/ exit_signal THEN
            IF sl_hit THEN "STOP_LOSS"
            ELSE IF tp2_hit THEN "TAKE_PROFIT2"
            ELSE "STRATEGY_EXIT"
        ELSE IF tp1_hit THEN "TAKE_PROFIT1"
        ELSE "HOLD"

\* mutant: a full exit always for the whole QUANTITY
LiveManage_full_amount(row, l, ok) ==
    LET branch == LiveBranch(row, l)
        side == IF l.current_position = "LONG" THEN "sell" ELSE "buy"
    IN  IF branch \in {"STOP_LOSS", "TAKE_PROFIT2", "STRATEGY_EXIT"} THEN
            LET l1 == CreateOrder(l, side, QUANTITY, ok)
            IN  IF ok THEN [l1 EXCEPT !.current_position = "NEUTRAL",
                                      !.entered_on = ""]
                      ELSE l1
        ELSE IF branch = "TAKE_PROFIT1" THEN
            LET l1 == CreateOrder(l, side, Mul(QUANTITY, Frac(1, 2)), ok)
            IN  IF ok THEN [l1 EXCEPT !.tp1_executed = TRUE] ELSE l1
        ELSE NoOrder(l)

\* mutant: an accepted TP1 order moves the stop-loss to the entry price
LiveManage_breakeven(row, l, ok) ==
    LET branch == LiveBranch(row, l)
        side == IF l.current_position = "LONG" THEN "sell" ELSE "buy"
    IN  IF branch \in {"STOP_LOSS", "TAKE_PROFIT2", "STRATEGY_EXIT"} THEN
            LET amount == IF ~l.tp1_executed THEN QUANTITY
                                             ELSE Mul(QUANTITY, Frac(1, 2))
                l1 == CreateOrder(l, side, amount, ok)
            IN  IF ok THEN [l1 EXCEPT !.current_position = "NEUTRAL",
                                      !.entered_on = ""]
                      ELSE l1
        ELSE IF branch = "TAKE_PROFIT1" THEN
            LET l1 == CreateOrder(l, side, Mul(QUANTITY, Frac(1, 2)), ok)
            IN  IF ok THEN [l1 EXCEPT !.tp1_executed = TRUE,
                                      !.stop_loss = l.entry_price]
                      ELSE l1
        ELSE NoOrder(l)

\* lines 214-294: a pass while LONG or SHORT
LiveManage(row, l, ok) ==
    LET branch == LiveBranch(row, l)
        side == IF l.current_position = "LONG" THEN "sell" ELSE "buy"
    IN  IF branch \in {"STOP_LOSS", "TAKE_PROFIT2", "STRATEGY_EXIT"} THEN
            LET amount == IF ~l.tp1_executed THEN QUANTITY
                                             ELSE Mul(QUANTITY, Frac(1, 2))
                l1 == CreateOrder(l, side, amount, ok)
            IN  IF ok THEN [l1 EXCEPT !.current_position = "NEUTRAL",
                                      !.entered_on = ""]
                      ELSE l1
        ELSE IF branch = "TAKE_PROFIT1" THEN
            LET l1 == CreateOrder(l, side, Mul(QUANTITY, Frac(1, 2)), ok)
            IN  IF ok THEN [l1 EXCEPT !.tp1_executed = TRUE] ELSE l1
        ELSE NoOrder(l)

\* lines 156-294: the locals after the pass over the newest row
LiveStep(row, l, ok) ==
    IF l.current_position = "NEUTRAL" THEN
        IF row.long_signal THEN LiveEntry(row, l, "LONG", "buy", ok)
        ELSE IF row.short_signal THEN LiveEntry(row, l, "SHORT", "sell", ok)
        ELSE NoOrder(l)
    ELSE LiveManage(row, l, ok)

\* what get_historical_data returns: a window of candles, one row shorter than
\* the backtest table, the ATR column constant
LiveCandles ==
    { d \in [0 .. (MaxBars - 2) -> { b \in Bars : b.atr = F(2) }] :
            d[0] \in FirstBars }

\* mutant: a candle as old as the last one processed counts as new data
LiveFetch_same_candle ==
    /\ pc = "live"
    /\ \E tf \in TIMEFRAMES, t \in CandleTimes :
          LET l == [NoOrder(live) EXCEPT !.timeframe = tf,
                                         !.latest_candle_time = t]
          IN  IF live.last_candle_time[tf] # 0 /\ t < live.last_candle_time[tf]
              THEN /\ live' = l
                   /\ UNCHANGED <<data, pc, idx, sg>>
              ELSE /\ live' = [l EXCEPT !.last_candle_time[tf] = t]
                   /\ data' \in LiveCandles
                   /\ pc' = "start"
                   /\ idx' = 0
                   /\ sg' = NoLocals
    /\ UNCHANGED <<rm, bt, trades, report, self_data>>

\* lines 120-148: the head of a pass, up to the new-data test
LiveFetch ==
    /\ pc = "live"
    /\ \E tf \in TIMEFRAMES, t \in CandleTimes :
          LET l == [NoOrder(live) EXCEPT !.timeframe = tf,
                                         !.latest_candle_time = t]
          IN  IF live.last_candle_time[tf] # 0 /\ t <= live.last_candle_time[tf]
              THEN /\ live' = l
                   /\ UNCHANGED <<data, pc, idx, sg>>
              ELSE /\ live' = [l EXCEPT !.last_candle_time[tf] = t]
                   /\ data' \in LiveCandles
                   /\ pc' = "start"
                   /\ idx' = 0
                   /\ sg' = NoLocals
    /\ UNCHANGED <<rm, bt, trades, report, self_data>>

\* lines 156-294: the rest of the pass, after generate_signals; the table of a
\* finished pass is not read again
LiveTradeCycle ==
    /\ pc = "signals"
    /\ idx = NRows
    /\ live # NoLocals
    /\ \E ok \in BOOLEAN : live' = LiveStep(data[NRows - 1], live, ok)
    /\ data' = <<>>
    /\ pc' = "live"
    /\ idx' = 0
    /\ sg' = NoLocals
    /\ UNCHANGED <<rm, bt, trades, report, self_data>>

\* live_trade before its first pass: no candles fetched yet
InitLive ==
    /\ data = <<>>
    /\ pc = "live"
    /\ idx = 0
    /\ sg = NoLocals
    /\ rm = NoLocals
    /\ bt = NoLocals
    /\ trades = <<>>
    /\ live = LiveLocals
    /\ report = NoLocals
    /\ self_data = NoLocals

NextLive ==
    \/ LiveFetch
    \/ GenerateSignalsBegin
    \/ GenerateSignalsStep
    \/ LiveTradeCycle

SpecLive == InitLive /\ [][NextLive]_vars

\* main(): the bot runs the backtest (here over the bars of the scenarios) or
\* the live loop, as --mode says
InitMain == InitScenario \/ InitLive

NextMain ==
    \/ live = NoLocals /\ Next
    \/ live # NoLocals /\ NextLive

SpecMain == InitMain /\ [][NextMain]_vars

(***************************************************************************)
(* Reading the annotated table                                             *)
(***************************************************************************)
\* rows the risk machine has annotated so far
RiskRows == IF pc = "risk" THEN 1 .. (idx - 1)
            ELSE IF pc \in {"pnl", "done", "reported"} THEN 1 .. (NRows - 1)
            ELSE {}

\* rows the settlement has processed so far
PnlRows == IF pc = "pnl" THEN 1 .. (idx - 1)
           ELSE IF pc \in {"done", "reported"} THEN 1 .. (NRows - 1)
           ELSE {}

\* row i carries a position / a full exit
InPosition(d, i) == d[i].position # "None"
Closed(d, i) == d[i].exit_reason # ""

\* the risk machine opened a position on row i: the row carries a position and
\* the machine was NEUTRAL after row i-1
OpenedAt(d, i) == /\ InPosition(d, i)
                  /\ (~InPosition(d, i - 1) \/ Closed(d, i - 1))

\* the row on which the position carried by row i was opened
EntryRow(d, i) ==
    CHOOSE e \in 1 .. i : OpenedAt(d, e) /\ \A k \in (e + 1) .. i : ~OpenedAt(d, k)

\* rows i <= j belong to one position
SamePosition(d, i, j) == /\ InPosition(d, j)
                         /\ EntryRow(d, j) <= i

\* the unit size the position opened on row e has at the start of row i
SizeAtOpen(d, e) ==
    Div(Mul(position_size_fraction, d[e - 1].equity), d[e].entry_price)

SizeAt(d, e, i) ==
    IF \E k \in (e + 1) .. (i - 1) : d[k].tp1_hit
    THEN Mul(SizeAtOpen(d, e), Frac(1, 2))
    ELSE SizeAtOpen(d, e)

TradesAt(i) == { k \in 1 .. Len(trades) : trades[k].exit_time = i }

\* what a row of an open position must show, given the machine's state r before
\* the row and r2 after it
C1_Outcome(row, r, r2) ==
    LET p == r.current_position
        c == row.close
        sl == IF p = "LONG" THEN Le(c, r.stop_loss) ELSE Ge(c, r.stop_loss)
        tp1 == /\ ~r.tp1_exit_executed
               /\ IF p = "LONG" THEN Ge(c, r.take_profit1) ELSE Le(c, r.take_profit1)
        tp2 == IF p = "LONG" THEN Ge(c, r.take_profit2) ELSE Le(c, r.take_profit2)
        ex == IF p = "LONG" THEN data[idx].exit_long_signal
                            ELSE data[idx].exit_short_signal
        flags == <<row.sl_hit, row.tp1_hit, row.tp2_hit>>
    IN  IF sl THEN
            /\ row.exit_reason = "STOP_LOSS" /\ row.exit_price = r.stop_loss
            /\ flags = <<TRUE, FALSE, FALSE>>
            /\ r2.current_position = "NEUTRAL"
        ELSE IF tp1 THEN
            /\ row.exit_reason = "" /\ IsNaN(row.exit_price)
            /\ flags = <<FALSE, TRUE, FALSE>>
            /\ r2.current_position = p /\ r2.tp1_exit_executed
        ELSE IF tp2 THEN
            /\ row.exit_reason = "TAKE_PROFIT2" /\ row.exit_price = r.take_profit2
            /\ flags = <<FALSE, FALSE, TRUE>>
            /\ r2.current_position = "NEUTRAL"
        ELSE IF ex THEN
            /\ row.exit_reason = "STRATEGY_EXIT" /\ row.exit_price = c
            /\ flags = <<FALSE, FALSE, FALSE>>
            /\ r2.current_position = "NEUTRAL"
        ELSE
            /\ row.exit_reason = "" /\ IsNaN(row.exit_price)
            /\ flags = <<FALSE, FALSE, FALSE>>
            /\ r2 = r

(***************************************************************************)
(* C1: while a position is open, a row is decided by the first of          *)
(* stop-loss, take-profit-1 (if not yet consumed), take-profit-2, strategy *)
(* exit signal that holds; the later ones are skipped, LONG and SHORT.     *)
(***************************************************************************)
C1_PriorityOrder ==
    [][(pc = "risk" /\ idx < NRows /\ rm.current_position # "NEUTRAL")
          => C1_Outcome(data'[idx], rm, rm')]_vars

\* take-profit-1 won over both take-profit-2 and a strategy exit on one row
C1_Witness ==
    \E i \in RiskRows :
        /\ data[i].tp1_hit
        /\ data[i].position = "SHORT"
        /\ Le(data[i].close, data[i].take_profit2)
        /\ data[i].exit_short_signal

(***************************************************************************)
(* C2: no long_signal or short_signal on a row at which the risk machine   *)
(* holds a position when it starts processing the row.                     *)
(***************************************************************************)
C2_NoEntrySignalInPosition ==
    (pc = "risk" /\ idx < NRows /\ rm.current_position # "NEUTRAL")
        => (~data[idx].long_signal /\ ~data[idx].short_signal)

(***************************************************************************)
(* C3: on every full-exit row the settlement realizes size x (exit_price - *)
(* entry_price) (LONG; mirrored for SHORT) with the size and entry price   *)
(* of the position being closed, appends one closing Trade Record and      *)
(* clears its entry tracking.                                              *)
(***************************************************************************)
C3_FullExitSettled ==
    \A i \in PnlRows :
        Closed(data, i) =>
            LET e == EntryRow(data, i)
                size == SizeAt(data, e, i)
                entry == data[e].entry_price
                exit == data[i].exit_price
            IN  /\ data[i].pnl = IF data[i].position = "LONG"
                                 THEN Mul(size, Sub(exit, entry))
                                 ELSE Mul(size, Sub(entry, exit))
                /\ Cardinality(TradesAt(i)) = 1
                /\ \A k \in TradesAt(i) :
                        /\ trades[k].pnl = data[i].pnl
                        /\ trades[k].exit_reason = data[i].exit_reason
                        /\ trades[k].exit_price = exit
                /\ (pc = "pnl" /\ i = idx - 1) => bt = PnlLocals

(***************************************************************************)
(* C4: on every row on which the risk machine opens a position the         *)
(* settlement sets the unit size to position_size x equity[i-1] /          *)
(* entry_price, and the size then changes only by the halving at TP1.      *)
(***************************************************************************)
C4_SizeOfOpenPosition ==
    (pc = "pnl" /\ idx > 1) =>
        LET i == idx - 1 IN
        (InPosition(data, i) /\ ~Closed(data, i)) =>
            LET e == EntryRow(data, i) IN
            bt.position_size = SizeAt(data, e, i + 1)

(***************************************************************************)
(* C5: within one open position tp1_hit is set on at most one row.         *)
(***************************************************************************)
C5_Tp1AtMostOnce ==
    \A j \in RiskRows : \A i \in 1 .. (j - 1) :
        (data[i].tp1_hit /\ data[j].tp1_hit) => ~SamePosition(data, i, j)

\* after TP1 a later row of the same position closes beyond take_profit1 again
C5_Witness ==
    \E j \in RiskRows : \E i \in 1 .. (j - 1) :
        /\ data[i].tp1_hit
        /\ SamePosition(data, i, j)
        /\ data[j].position = "LONG"
        /\ Ge(data[j].close, data[j].take_profit1)

(***************************************************************************)
(* C6: on a TP1 row the settlement realizes (size x 0.5) x (tp1 -          *)
(* entry_price) (LONG; mirrored for SHORT), appends a TAKE_PROFIT1 Trade   *)
(* Record with exit price tp1 and carries half the size forward.           *)
(***************************************************************************)
C6_PartialExitSettled ==
    \A i \in PnlRows :
        data[i].tp1_hit =>
            LET e == EntryRow(data, i)
                size == SizeAt(data, e, i)
                entry == data[e].entry_price
                tp1 == data[i].take_profit1
            IN  /\ data[i].pnl = IF data[i].position = "LONG"
                                 THEN Mul(Mul(size, Frac(1, 2)), Sub(tp1, entry))
                                 ELSE Mul(Mul(size, Frac(1, 2)), Sub(entry, tp1))
                /\ Cardinality(TradesAt(i)) = 1
                /\ \A k \in TradesAt(i) :
                        /\ trades[k].pnl = data[i].pnl
                        /\ trades[k].exit_reason = "TAKE_PROFIT1"
                        /\ trades[k].exit_price = tp1
                /\ (pc = "pnl" /\ i = idx - 1) =>
                        bt.position_size = Mul(size, Frac(1, 2))

(***************************************************************************)
(* C7: a take-profit-1 hit does not close the position: the row records no *)
(* exit_price and no exit_reason, and the following row carries the same   *)
(* direction, entry_price, stop_loss, take_profit1 and take_profit2.       *)
(***************************************************************************)
C7_Tp1KeepsPosition ==
    \A i \in RiskRows :
        data[i].tp1_hit =>
            /\ IsNaN(data[i].exit_price)
            /\ data[i].exit_reason = ""
            /\ InPosition(data, i)
            /\ (pc = "risk" /\ i = idx - 1) =>
                    /\ rm.tp1_exit_executed
                    /\ rm.current_position = data[i].position
            /\ (i + 1) \in RiskRows =>
                    /\ data[i + 1].position = data[i].position
                    /\ data[i + 1].entry_price = data[i].entry_price
                    /\ data[i + 1].stop_loss = data[i].stop_loss
                    /\ data[i + 1].take_profit1 = data[i].take_profit1
                    /\ data[i + 1].take_profit2 = data[i].take_profit2

C7_Witness ==
    \E i \in RiskRows : data[i].tp1_hit /\ (i + 1) \in RiskRows

\* what the machine's state r2 after an opening on `row` must be, r being the
\* state before it
C8_Opening(row, r, r2) ==
    LET p == r2.current_position
        atr == row.atr
    IN  /\ r.current_position = "NEUTRAL"
        /\ IF p = "LONG" THEN row.long_signal
                         ELSE (row.short_signal /\ ~row.long_signal)
        /\ r2.entry_price = row.close
        /\ ~r2.tp1_exit_executed
        /\ IF p = "LONG" THEN
              /\ r2.stop_loss = Sub(row.close, Mul(STOP_LOSS_ATR_MULTIPLIER, atr))
              /\ r2.take_profit1 = Add(row.close, Mul(TAKE_PROFIT1_ATR_MULTIPLIER, atr))
              /\ r2.take_profit2 = Add(row.close, Mul(TAKE_PROFIT2_ATR_MULTIPLIER, atr))
           ELSE
              /\ r2.stop_loss = Add(row.close, Mul(STOP_LOSS_ATR_MULTIPLIER, atr))
              /\ r2.take_profit1 = Sub(row.close, Mul(TAKE_PROFIT1_ATR_MULTIPLIER, atr))
              /\ r2.take_profit2 = Sub(row.close, Mul(TAKE_PROFIT2_ATR_MULTIPLIER, atr))

(***************************************************************************)
(* C8: a position is opened only on a row where the machine is NEUTRAL and *)
(* an entry signal is present; the entry price is the row's close and the  *)
(* levels are entry -/+ k x ATR of that row.                               *)
(***************************************************************************)
\* a step opens a position when it ends in a position and changes anything of
\* the position state other than the TP1 flag
C8_OpensOnlyOnSignal ==
    [][(/\ pc = "risk" /\ idx < NRows
        /\ rm'.current_position # "NEUTRAL"
        /\ rm' # [rm EXCEPT !.tp1_exit_executed = rm'.tp1_exit_executed])
          => C8_Opening(data[idx], rm, rm')]_vars

C8_Witness ==
    /\ pc = "risk"
    /\ rm.current_position = "SHORT"
    /\ rm.entry_idx = idx - 1
    /\ data[idx - 1].atr = F(2)
    /\ rm.stop_loss = Add(data[idx - 1].close, F(4))

(***************************************************************************)
(* C9 (as stated): every opened LONG has stop_loss < entry_price <         *)
(* take_profit1 <= take_profit2, every opened SHORT the mirror image, for  *)
(* every ATR >= 0.                                                         *)
(***************************************************************************)
C9_StrictLevelOrder ==
    \A i \in RiskRows :
        OpenedAt(data, i) =>
            IF data[i].position = "LONG"
            THEN /\ Lt(data[i].stop_loss, data[i].entry_price)
                 /\ Lt(data[i].entry_price, data[i].take_profit1)
                 /\ Le(data[i].take_profit1, data[i].take_profit2)
            ELSE /\ Gt(data[i].stop_loss, data[i].entry_price)
                 /\ Gt(data[i].entry_price, data[i].take_profit1)
                 /\ Ge(data[i].take_profit1, data[i].take_profit2)

(***************************************************************************)
(* C9 (amended): every opened LONG has stop_loss <= entry_price <=         *)
(* take_profit1 <= take_profit2, with stop_loss < entry_price <            *)
(* take_profit1 when ATR > 0 on the entry row; mirrored for SHORT.         *)
(***************************************************************************)
C9_LevelOrder ==
    \A i \in RiskRows :
        OpenedAt(data, i) =>
            IF data[i].position = "LONG"
            THEN /\ Le(data[i].stop_loss, data[i].entry_price)
                 /\ Le(data[i].entry_price, data[i].take_profit1)
                 /\ Le(data[i].take_profit1, data[i].take_profit2)
                 /\ Gt(data[i].atr, F(0)) =>
                        /\ Lt(data[i].stop_loss, data[i].entry_price)
                        /\ Lt(data[i].entry_price, data[i].take_profit1)
            ELSE /\ Ge(data[i].stop_loss, data[i].entry_price)
                 /\ Ge(data[i].entry_price, data[i].take_profit1)
                 /\ Ge(data[i].take_profit1, data[i].take_profit2)
                 /\ Gt(data[i].atr, F(0)) =>
                        /\ Gt(data[i].stop_loss, data[i].entry_price)
                        /\ Gt(data[i].entry_price, data[i].take_profit1)

\* one table with a LONG opened at ATR = 0 and another opened at ATR > 0
C9_Witness ==
    /\ \E i \in RiskRows : /\ OpenedAt(data, i) /\ data[i].position = "LONG"
                           /\ data[i].atr = F(0)
    /\ \E i \in RiskRows : /\ OpenedAt(data, i) /\ data[i].position = "LONG"
                           /\ Gt(data[i].atr, F(0))

(***************************************************************************)
(* C10: after _calculate_pnl, for every row i >= 1, cumulative_pnl[i] =    *)
(* cumulative_pnl[i-1] + pnl[i], equity[i] = initial_capital +             *)
(* cumulative_pnl[i] = equity[i-1] + pnl[i], and max_equity[i] =           *)
(* max(max_equity[i-1], equity[i]), so max_equity never decreases.         *)
(***************************************************************************)
C10_EquityContinuity ==
    \A i \in PnlRows :
        /\ data[i].cumulative_pnl = Add(data[i - 1].cumulative_pnl, data[i].pnl)
        /\ data[i].equity = Add(initial_capital, data[i].cumulative_pnl)
        /\ data[i].equity = Add(data[i - 1].equity, data[i].pnl)
        /\ data[i].max_equity = Max(data[i - 1].max_equity, data[i].equity)
        /\ Ge(data[i].max_equity, data[i - 1].max_equity)

\* a finished run with a winning row followed by a losing row
C10_Witness ==
    /\ pc = "done"
    /\ \E i \in PnlRows : \E j \in PnlRows :
            i < j /\ Gt(data[i].pnl, F(0)) /\ Lt(data[j].pnl, F(0))

(***************************************************************************)
(* C11 (as stated): on every settled row 0 <= drawdown <= 100 whenever     *)
(* max_equity > 0, and drawdown = 0 when max_equity <= 0, whatever trades  *)
(* precede the row.                                                        *)
(***************************************************************************)
C11_DrawdownBound ==
    \A i \in PnlRows :
        IF Gt(data[i].max_equity, F(0))
        THEN Ge(data[i].drawdown, F(0)) /\ Le(data[i].drawdown, F(100))
        ELSE data[i].drawdown = F(0)

(***************************************************************************)
(* C11 (amended): on every settled row max_equity >= initial_capital > 0   *)
(* and drawdown >= 0; drawdown <= 100 exactly when equity >= 0, and a      *)
(* losing SHORT can take equity below 0.                                   *)
(***************************************************************************)
C11_DrawdownByEquity ==
    \A i \in PnlRows :
        /\ Ge(data[i].max_equity, initial_capital)
        /\ Gt(data[i].max_equity, F(0))
        /\ Ge(data[i].drawdown, F(0))
        /\ Le(data[i].drawdown, F(100)) <=> Ge(data[i].equity, F(0))

\* a finished run in which a SHORT stopped out above 11 times its entry took
\* equity below 0 and the drawdown above 100
C11_Witness ==
    /\ pc = "done"
    /\ \E i \in PnlRows :
            /\ data[i].position = "SHORT" /\ data[i].sl_hit
            /\ Lt(data[i].equity, F(0)) /\ Gt(data[i].drawdown, F(100))

\* the risk machine holds no position when it starts row i
NeutralBefore(d, i) == i = 1 \/ ~InPosition(d, i - 1) \/ Closed(d, i - 1)

\* row i carries an entry signal
EntrySignalAt(d, i) == d[i].long_signal \/ d[i].short_signal

\* a full close precedes row i and no entry signal came between it and row i
IdleSinceClose(d, i) ==
    \E c \in 1 .. (i - 1) :
        /\ Closed(d, c)
        /\ \A k \in (c + 1) .. (i - 1) : ~EntrySignalAt(d, k)

\* the row carries nothing of a position
BlankRow(row) ==
    /\ row.position = "None"
    /\ IsNaN(row.entry_price) /\ IsNaN(row.stop_loss)
    /\ IsNaN(row.take_profit1) /\ IsNaN(row.take_profit2)
    /\ IsNaN(row.exit_price) /\ row.exit_reason = ""
    /\ ~row.tp1_hit /\ ~row.tp2_hit /\ ~row.sl_hit

(***************************************************************************)
(* C12: after a full close (stop-loss, TP2, strategy exit) the risk        *)
(* machine holds no position: the rows after the closing row carry no      *)
(* position, entry price, level, exit or hit annotation until the next row *)
(* with an entry signal; that row opens a position with TP1 not consumed.  *)
(***************************************************************************)
C12_IdleAfterClose ==
    \A i \in RiskRows :
        /\ (Closed(data, i) /\ pc = "risk" /\ i = idx - 1)
                => rm.current_position = "NEUTRAL"
        /\ IdleSinceClose(data, i) =>
              IF ~EntrySignalAt(data, i) THEN
                  /\ BlankRow(data[i])
                  /\ (pc = "risk" /\ i = idx - 1) => rm.current_position = "NEUTRAL"
              ELSE
                  /\ data[i].position = IF data[i].long_signal THEN "LONG" ELSE "SHORT"
                  /\ data[i].entry_price = data[i].close
                  /\ ~IsNaN(data[i].stop_loss)
                  /\ ~IsNaN(data[i].take_profit1) /\ ~IsNaN(data[i].take_profit2)
                  /\ IsNaN(data[i].exit_price) /\ data[i].exit_reason = ""
                  /\ ~data[i].tp1_hit /\ ~data[i].tp2_hit /\ ~data[i].sl_hit
                  /\ (pc = "risk" /\ i = idx - 1) =>
                        /\ rm.current_position = data[i].position
                        /\ ~rm.tp1_exit_executed
                  /\ ((i + 1) \in RiskRows /\ data[i].position = "LONG"
                        /\ Gt(data[i + 1].close, data[i].stop_loss)
                        /\ Ge(data[i + 1].close, data[i].take_profit1))
                        => data[i + 1].tp1_hit

\* a position that consumed TP1 was closed and the next row opened a new one
C12_Witness ==
    /\ pc = "risk"
    /\ idx = NRows
    /\ \E i \in RiskRows :
            /\ i + 3 = idx
            /\ data[i].tp1_hit
            /\ Closed(data, i + 1)
            /\ IdleSinceClose(data, i + 2)
            /\ EntrySignalAt(data, i + 2)
            /\ rm.current_position = data[i + 2].position

\* the direction the risk machine holds when it starts row i
PositionBefore(d, i) == IF NeutralBefore(d, i) THEN "None" ELSE d[i - 1].position

\* row i carries an exit signal for a direction the risk machine does not hold
UnmatchedExit(d, i) ==
    \/ d[i].exit_long_signal /\ PositionBefore(d, i) # "LONG"
    \/ d[i].exit_short_signal /\ PositionBefore(d, i) # "SHORT"

ScenarioEntry(d, i) ==
    /\ OpenedAt(d, i)
    /\ d[i].position = "LONG"
    /\ d[i].close = F(100)
    /\ d[i].atr = F(10)

NoEntryRule(d) == \A i \in 1 .. (NRows - 1) : EntryTrigger(d, i) = ""

(***************************************************************************)
(* C16: Scenario 3: over a table on which no entry rule is ever satisfied  *)
(* no signal is set, no row carries a position, there is no Trade Record,  *)
(* pnl is 0 on every row, equity is initial_capital on every row and       *)
(* drawdown is 0 throughout.                                               *)
(***************************************************************************)
C16_NoEntryNoTrade ==
    NoEntryRule(data) =>
        /\ trades = <<>>
        /\ pc # "start" =>
              \A i \in DOMAIN data :
                  /\ ~data[i].long_signal /\ ~data[i].short_signal
                  /\ ~data[i].exit_long_signal /\ ~data[i].exit_short_signal
        /\ \A i \in RiskRows : BlankRow(data[i])
        /\ \A i \in PnlRows :
              /\ data[i].pnl = F(0)
              /\ data[i].cumulative_pnl = F(0)
              /\ data[i].equity = initial_capital
              /\ data[i].max_equity = initial_capital
              /\ data[i].drawdown = F(0)

\* a finished run over a table without a crossover whose closes move
C16_Witness ==
    /\ pc = "done"
    /\ NoEntryRule(data)
    /\ trades = <<>>
    /\ Lt(data[1].close, data[2].close)
    /\ Gt(data[2].close, data[3].close)
    /\ data[3].equity = initial_capital

\* rows generate_signals has processed so far
SignalRows == IF pc = "start" THEN {}
              ELSE IF pc = "signals" THEN 1 .. (idx - 1)
              ELSE 1 .. (NRows - 1)

\* the direction generate_signals tracks when it starts row i, read off the
\* signals it set on the rows before
RECURSIVE TrackedBefore(_, _)
TrackedBefore(d, i) ==
    IF i <= 1 THEN "NEUTRAL"
    ELSE IF d[i - 1].long_signal THEN "LONG"
    ELSE IF d[i - 1].short_signal THEN "SHORT"
    ELSE IF d[i - 1].exit_long_signal \/ d[i - 1].exit_short_signal THEN "NEUTRAL"
    ELSE TrackedBefore(d, i - 1)

(***************************************************************************)
(* C17: on every row output by generate_signals at most one of long_signal *)
(* and short_signal is true.                                               *)
(***************************************************************************)
C17_OneEntrySignal ==
    pc # "start" =>
        \A i \in DOMAIN data : ~(data[i].long_signal /\ data[i].short_signal)

\* a finished table with a long entry on a row whose two divergence flags are
\* both set
C17_Witness ==
    /\ pc = "signals"
    /\ idx = NRows
    /\ \E i \in SignalRows :
            /\ data[i].long_signal
            /\ data[i].rsi_bullish_divergence /\ data[i].rsi_bearish_divergence

\* the six entry rules on row i, read off the columns
RuleLongA(d, i) ==
    /\ Gt(d[i].close, d[i].vwap)
    /\ Le(d[i - 1].ema_fast, d[i - 1].ema_slow) /\ Gt(d[i].ema_fast, d[i].ema_slow)
    /\ Le(d[i - 1].macd, d[i - 1].macd_signal) /\ Gt(d[i].macd, d[i].macd_signal)

RuleLongB(d, i) ==
    /\ d[i].rsi_bullish_divergence
    /\ Le(d[i - 1].macd, d[i - 1].macd_signal) /\ Gt(d[i].macd, d[i].macd_signal)

RuleLongC(d, i) ==
    /\ Le(d[i - 1].ema_fast, d[i - 1].ema_slow) /\ Gt(d[i].ema_fast, d[i].ema_slow)
    /\ Le(d[i - 1].macd, d[i - 1].macd_signal) /\ Gt(d[i].macd, d[i].macd_signal)

RuleShortA(d, i) ==
    /\ Lt(d[i].close, d[i].vwap)
    /\ Ge(d[i - 1].ema_fast, d[i - 1].ema_slow) /\ Lt(d[i].ema_fast, d[i].ema_slow)
    /\ Ge(d[i - 1].macd, d[i - 1].macd_signal) /\ Lt(d[i].macd, d[i].macd_signal)
    /\ Lt(d[i].macd_histogram, F(0))

RuleShortB(d, i) ==
    /\ d[i].rsi_bearish_divergence
    /\ Ge(d[i - 1].macd, d[i - 1].macd_signal) /\ Lt(d[i].macd, d[i].macd_signal)

RuleShortC(d, i) ==
    /\ Ge(d[i - 1].ema_fast, d[i - 1].ema_slow) /\ Lt(d[i].ema_fast, d[i].ema_slow)
    /\ Ge(d[i - 1].macd, d[i - 1].macd_signal) /\ Lt(d[i].macd, d[i].macd_signal)

\* the row carries exactly this entry flag and label and no exit flag
EntryOutcome(row, long, short, label) ==
    /\ row.long_signal = long
    /\ row.short_signal = short
    /\ row.signal_trigger = label
    /\ ~row.exit_long_signal /\ ~row.exit_short_signal

(***************************************************************************)
(* C18: on a row where the generator's tracked direction is NEUTRAL the    *)
(* entry rules are tried in the order long A, B, C, short A, B, C; the     *)
(* first one satisfied sets its entry flag and its label LONG_COND1..3 or  *)
(* SHORT_COND1..3; if none is satisfied the row gets no entry flag and an  *)
(* empty label.                                                            *)
(***************************************************************************)
C18_FirstRuleWins ==
    /\ (pc = "signals" /\ TrackedBefore(data, idx) = "NEUTRAL")
            => sg.current_position = "NEUTRAL"
    /\ \A i \in SignalRows :
        TrackedBefore(data, i) = "NEUTRAL" =>
            IF RuleLongA(data, i) THEN EntryOutcome(data[i], TRUE, FALSE, "LONG_COND1")
            ELSE IF RuleLongB(data, i) THEN EntryOutcome(data[i], TRUE, FALSE, "LONG_COND2")
            ELSE IF RuleLongC(data, i) THEN EntryOutcome(data[i], TRUE, FALSE, "LONG_COND3")
            ELSE IF RuleShortA(data, i) THEN EntryOutcome(data[i], FALSE, TRUE, "SHORT_COND1")
            ELSE IF RuleShortB(data, i) THEN EntryOutcome(data[i], FALSE, TRUE, "SHORT_COND2")
            ELSE IF RuleShortC(data, i) THEN EntryOutcome(data[i], FALSE, TRUE, "SHORT_COND3")
            ELSE EntryOutcome(data[i], FALSE, FALSE, "")

\* a finished table with a row on which long rules A, B and C all hold,
\* labelled LONG_COND1
C18_Witness ==
    /\ pc = "signals"
    /\ idx = NRows
    /\ \E i \in SignalRows :
            /\ TrackedBefore(data, i) = "NEUTRAL"
            /\ RuleLongA(data, i) /\ RuleLongB(data, i) /\ RuleLongC(data, i)
            /\ data[i].signal_trigger = "LONG_COND1"

(***************************************************************************)
(* C19: generate_signals sets exit_long_signal exactly on the rows where   *)
(* its tracked direction is LONG and the fast average crosses below the    *)
(* slow one (>= on row i-1, < on row i), exit_short_signal exactly on the  *)
(* rows where it is SHORT and the fast average crosses above the slow one  *)
(* (<= on row i-1, > on row i); no exit signal while it is NEUTRAL, and    *)
(* nothing else is set on a row of a tracked position.                     *)
(***************************************************************************)
C19_ExitOnCrossover ==
    /\ pc = "signals" => sg.current_position = TrackedBefore(data, idx)
    /\ \A i \in SignalRows :
        LET t == TrackedBefore(data, i)
            below == /\ Ge(data[i - 1].ema_fast, data[i - 1].ema_slow)
                     /\ Lt(data[i].ema_fast, data[i].ema_slow)
            above == /\ Le(data[i - 1].ema_fast, data[i - 1].ema_slow)
                     /\ Gt(data[i].ema_fast, data[i].ema_slow)
        IN  /\ data[i].exit_long_signal <=> (t = "LONG" /\ below)
            /\ data[i].exit_short_signal <=> (t = "SHORT" /\ above)
            /\ data[i].exit_long_signal => data[i].signal_trigger = "EXIT_LONG_EMA"
            /\ data[i].exit_short_signal => data[i].signal_trigger = "EXIT_SHORT_EMA"
            /\ t # "NEUTRAL" =>
                  /\ ~data[i].long_signal /\ ~data[i].short_signal
                  /\ (~data[i].exit_long_signal /\ ~data[i].exit_short_signal)
                        => data[i].signal_trigger = ""

\* a LONG entered by rule B with the averages equal, left on the next row as
\* the fast average falls below the slow one while the MACD line stays above
C19_Witness ==
    /\ pc = "signals"
    /\ idx = NRows
    /\ \E i \in SignalRows :
            /\ i > 1
            /\ data[i - 1].signal_trigger = "LONG_COND2"
            /\ data[i - 1].ema_fast = data[i - 1].ema_slow
            /\ data[i].exit_long_signal
            /\ Gt(data[i].macd, data[i].macd_signal)

\* the Position State live_trade holds
PositionState(l) ==
    <<l.current_position, l.entry_price, l.stop_loss,
      l.take_profit1, l.take_profit2, l.tp1_executed>>

(***************************************************************************)
(* C20: in live mode, when a pass submits an order and create_order        *)
(* returns nothing, the Position State (direction, entry_price, stop_loss, *)
(* take_profit1, take_profit2, TP1 consumed) after the pass is the one     *)
(* before it, for entry, partial-exit and full-exit orders.                *)
(***************************************************************************)
C20_FailedOrderKeepsState ==
    [][(pc = "signals" /\ idx = NRows /\ live'.side # "" /\ ~live'.order)
          => PositionState(live') = PositionState(live)]_vars

\* the pass just finished submitted an entry order and create_order returned
\* nothing
EntryFailed(l) == /\ l.current_position = "NEUTRAL"
                  /\ l.side # ""
                  /\ ~l.order

(***************************************************************************)
(* C21: in live mode, after an entry order failed, the next pass of that   *)
(* timeframe over the same newest candle, whose entry condition therefore  *)
(* still holds, evaluates the candle again (and so submits the order       *)
(* again) instead of ending at once.                                       *)
(***************************************************************************)
C21_RetryNextCycle ==
    [][(/\ pc = "live"
        /\ EntryFailed(live)
        /\ live'.timeframe = live.timeframe
        /\ live'.latest_candle_time = live.latest_candle_time)
          => pc' = "start"]_vars

(***************************************************************************)
(* C22: each timeframe's live session owns its Position State: a pass over *)
(* the candles of one timeframe, while the position held was entered on    *)
(* the candles of the other timeframe, submits no order and leaves the     *)
(* Position State as it was.                                               *)
(***************************************************************************)
C22_TimeframeOwnsPosition ==
    [][(/\ pc = "signals"
        /\ idx = NRows
        /\ live.current_position # "NEUTRAL"
        /\ live.timeframe # live.entered_on)
          => /\ live'.side = ""
             /\ PositionState(live') = PositionState(live)]_vars

(***************************************************************************)
(* C23: every Trade Record carries the entry of the position it settles:   *)
(* entry_time is the bar on which the risk machine opened that position    *)
(* and entry_price is the close of that bar, for full and partial exits,   *)
(* however many bars the position stayed open.                             *)
(***************************************************************************)
C23_TradeCarriesEntry ==
    \A k \in 1 .. Len(trades) :
        LET e == EntryRow(data, trades[k].exit_time)
        IN  /\ trades[k].entry_time = e
            /\ trades[k].entry_price = data[e].close

\* row i of the table is a malformed bar
Malformed(d, i) ==
    \/ i > 0 /\ d[i].timestamp <= d[i - 1].timestamp
    \/ Lt(d[i].high, d[i].low)
    \/ Lt(d[i].volume, F(0))

(***************************************************************************)
(* C24: a backtest run given a malformed bar (a timestamp not after the    *)
(* previous one, high < low, or a negative volume) stops before the signal *)
(* generator sees the bar: no stage runs over the table, and no Trade      *)
(* Record comes out of it.                                                 *)
(***************************************************************************)
C24_MalformedBarAborts ==
    (\E i \in DOMAIN data : Malformed(data, i))
        => (pc = "start" /\ trades = <<>>)

\* gross profit and gross loss of the Trade Record list: the sum of the
\* positive P&Ls, and the size of the sum of the negative ones
RECURSIVE GrossProfit(_, _)
GrossProfit(ts, k) ==
    IF k = 0 THEN F(0)
    ELSE IF Gt(ts[k].pnl, F(0)) THEN Add(GrossProfit(ts, k - 1), ts[k].pnl)
    ELSE GrossProfit(ts, k - 1)

RECURSIVE GrossLoss(_, _)
GrossLoss(ts, k) ==
    IF k = 0 THEN F(0)
    ELSE IF Lt(ts[k].pnl, F(0)) THEN Add(GrossLoss(ts, k - 1), Sub(F(0), ts[k].pnl))
    ELSE GrossLoss(ts, k - 1)

(***************************************************************************)
(* C25 as stated: the report's profit factor is gross profit over gross    *)
(* loss of the Trade Record list and +infinity whenever the gross loss is  *)
(* zero, a run without any trade included.                                 *)
(***************************************************************************)
C25_ProfitFactor ==
    pc = "reported" =>
        LET gp == GrossProfit(trades, Len(trades))
            gl == GrossLoss(trades, Len(trades))
        IN  report.profit_factor = IF gl = F(0) THEN Inf ELSE Div(gp, gl)

(***************************************************************************)
(* C25, amended: the report of a run with at least one Trade Record has    *)
(* the profit factor gross profit over gross loss, +infinity when the      *)
(* gross loss is zero; the report of a run without any trade has the       *)
(* profit factor 0.                                                        *)
(***************************************************************************)
C25_ProfitFactorOfTrades ==
    pc = "reported" =>
        LET gp == GrossProfit(trades, Len(trades))
            gl == GrossLoss(trades, Len(trades))
        IN  report.profit_factor =
                IF trades = <<>> THEN F(0)
                ELSE IF gl = F(0) THEN Inf
                ELSE Div(gp, gl)

\* a reported run whose trades all won: no gross loss, the profit factor
\* +infinity
C25_Witness ==
    /\ pc = "reported"
    /\ Len(trades) = 2
    /\ \A k \in 1 .. Len(trades) : Gt(trades[k].pnl, F(0))
    /\ report.profit_factor = Inf

(***************************************************************************)
(* C26: row 0 never carries anything. Once a stage has added its columns,  *)
(* row 0 holds their initial values: the four signal flags false and the   *)
(* trigger label empty; no position, no levels, no exit and no hit flag;   *)
(* pnl 0, cumulative_pnl 0, equity = max_equity = initial_capital and      *)
(* drawdown 0.                                                             *)
(***************************************************************************)
C26_BarZeroBlank ==
    /\ pc \in {"signals", "risk", "pnl", "done", "reported"} =>
            /\ ~data[0].long_signal
            /\ ~data[0].short_signal
            /\ ~data[0].exit_long_signal
            /\ ~data[0].exit_short_signal
            /\ data[0].signal_trigger = ""
    /\ pc \in {"risk", "pnl", "done", "reported"} =>
            /\ data[0].position = "None"
            /\ IsNaN(data[0].entry_price)
            /\ IsNaN(data[0].stop_loss)
            /\ IsNaN(data[0].take_profit1)
            /\ IsNaN(data[0].take_profit2)
            /\ IsNaN(data[0].exit_price)
            /\ data[0].exit_reason = ""
            /\ ~data[0].tp1_hit
            /\ ~data[0].tp2_hit
            /\ ~data[0].sl_hit
    /\ pc \in {"pnl", "done", "reported"} =>
            /\ data[0].pnl = F(0)
            /\ data[0].cumulative_pnl = F(0)
            /\ data[0].equity = initial_capital
            /\ data[0].max_equity = initial_capital
            /\ data[0].drawdown = F(0)

\* a finished run whose row 1 opened a position that row 2 closed at a loss
C26_Witness ==
    /\ pc = "done"
    /\ data[1].position # "None"
    /\ data[2].exit_reason # ""
    /\ Lt(data[2].pnl, F(0))
    /\ Lt(data[2].equity, data[0].equity)

\* the columns of a row that a stage found on it
InputFields == {"close", "atr"} \cup UNION { DOMAIN ind : ind \in IndicatorVals }
SignalFields == DOMAIN SignalColumns
RiskFields == DOMAIN RiskColumns

\* the table d restricted to the columns in fields
Columns(d, fields) ==
    [i \in DOMAIN d |-> [f \in fields \cap DOMAIN d[i] |-> d[i][f]]]

(***************************************************************************)
(* C27: the later stages only add columns. No step of                      *)
(* apply_risk_management changes a price, indicator or signal column of    *)
(* any row; no step of _calculate_pnl changes a price, indicator, signal   *)
(* or risk column of any row; and no step of Backtest.run changes the      *)
(* table the caller handed over (self.data).                               *)
(***************************************************************************)
C27_StagesOnlyAppend ==
    [][/\ pc' = "risk" =>
            Columns(data', InputFields \cup SignalFields)
                = Columns(data, InputFields \cup SignalFields)
       /\ pc' = "pnl" =>
            Columns(data', InputFields \cup SignalFields \cup RiskFields)
                = Columns(data, InputFields \cup SignalFields \cup RiskFields)
       /\ self_data' = self_data]_vars

\* a finished run with a Trade Record: the risk machine wrote a position on
\* the row of an entry signal, and the caller's table still has its own
\* columns only
C27_Witness ==
    /\ pc = "done"
    /\ trades # <<>>
    /\ \E i \in DOMAIN data : data[i].long_signal /\ data[i].position = "LONG"
    /\ \A i \in DOMAIN self_data : DOMAIN self_data[i] = {"close"}

\* the stages of Backtest.run that loop over the rows
Stages == {"signals", "risk", "pnl"}

(***************************************************************************)
(* C28: Backtest.run runs signal generation, then risk management, then    *)
(* settlement. A stage starts at row 1 only when the stage before it has   *)
(* gone through every row, and each of its steps works on row idx alone    *)
(* and moves on to row idx + 1: the risk machine reads no row the signal   *)
(* generator has not annotated, the settlement no row the risk machine has *)
(* not annotated.                                                          *)
(***************************************************************************)
C28_StageOrder ==
    [][/\ pc' # pc =>
            /\ <<pc, pc'>> \in { <<"new", "start">>, <<"start", "signals">>,
                                 <<"signals", "risk">>, <<"risk", "pnl">>,
                                 <<"pnl", "done">>, <<"done", "reported">> }
            /\ pc \in Stages => idx = NRows
            /\ pc' \in Stages => idx' = 1
       /\ (pc' = pc /\ pc \in Stages) =>
            /\ idx < NRows
            /\ idx' = idx + 1
            /\ \A i \in DOMAIN data \ {idx} : data'[i] = data[i]]_vars

\* the settlement at a row on which the risk machine recorded an exit, of a
\* position opened on a row the signal generator flagged
C28_Witness ==
    /\ pc = "pnl"
    /\ idx = 2
    /\ data[1].long_signal
    /\ data[1].position = "LONG"
    /\ data[2].exit_reason = "STOP_LOSS"

(***************************************************************************)
(* C29: _calculate_pnl appends exactly one Trade Record on every row on    *)
(* which the risk machine recorded a full exit, with that row's            *)
(* exit_reason and exit_price, the direction LONG or SHORT and the         *)
(* entry_price of the position closed; exactly one TAKE_PROFIT1 record on  *)
(* every tp1_hit row; and none on any other row.                           *)
(***************************************************************************)
C29_OneRecordPerExit ==
    \A i \in PnlRows :
        IF Closed(data, i) THEN
            /\ Cardinality(TradesAt(i)) = 1
            /\ \A k \in TradesAt(i) :
                    /\ trades[k].exit_reason = data[i].exit_reason
                    /\ trades[k].exit_price = data[i].exit_price
                    /\ trades[k].position \in {"LONG", "SHORT"}
                    /\ trades[k].entry_price = data[i].entry_price
        ELSE IF data[i].tp1_hit THEN
            /\ Cardinality(TradesAt(i)) = 1
            /\ \A k \in TradesAt(i) : trades[k].exit_reason = "TAKE_PROFIT1"
        ELSE TradesAt(i) = {}

\* the locals of apply_risk_management holding the position live_trade holds
RiskView(l) ==
    [current_position |-> l.current_position, entry_price |-> l.entry_price,
     entry_idx |-> 0, stop_loss |-> l.stop_loss, take_profit1 |-> l.take_profit1,
     take_profit2 |-> l.take_profit2, tp1_exit_executed |-> l.tp1_executed]

(***************************************************************************)
(* C30: live_trade decides the newest row of an open position as           *)
(* apply_risk_management decides a row with the same close and exit        *)
(* signal for the same position: hold, TAKE_PROFIT1 partial exit, or a     *)
(* full exit with the same reason.                                         *)
(***************************************************************************)
C30_LiveDecidesAsRiskMachine ==
    (/\ pc = "signals"
     /\ idx = NRows
     /\ live # NoLocals
     /\ live.current_position # "NEUTRAL")
        => LiveBranch(data[NRows - 1], live)
                = ManageBranch(data[NRows - 1], RiskView(live))

\* row i has its close at or beyond the take_profit2 the row carries
BeyondTp2(d, i) ==
    IF d[i].position = "LONG" THEN Ge(d[i].close, d[i].take_profit2)
    ELSE Le(d[i].close, d[i].take_profit2)

\* a row after the entry and before row j, of the position row j carries, is
\* marked tp1_hit
Tp1Before(d, j) ==
    \E i \in (EntryRow(d, j) + 1) .. (j - 1) : d[i].tp1_hit

(***************************************************************************)
(* C31: a TAKE_PROFIT2 exit is recorded only on a row whose close is at or *)
(* beyond take_profit2 and only after tp1_hit was recorded on a strictly   *)
(* earlier row of the same position; a row managed with its close beyond   *)
(* take_profit2 before any tp1_hit of the position marks tp1_hit and no    *)
(* exit, unless the stop-loss decides the row.                             *)
(***************************************************************************)
C31_Tp2OnlyAfterTp1 ==
    \A j \in RiskRows :
        /\ (data[j].tp2_hit \/ data[j].exit_reason = "TAKE_PROFIT2") =>
                /\ InPosition(data, j)
                /\ BeyondTp2(data, j)
                /\ Tp1Before(data, j)
        /\ (/\ InPosition(data, j)
            /\ ~OpenedAt(data, j)
            /\ BeyondTp2(data, j)
            /\ ~Tp1Before(data, j)
            /\ ~data[j].sl_hit) =>
                /\ data[j].tp1_hit
                /\ ~data[j].tp2_hit
                /\ data[j].exit_reason = ""

\* the close jumps beyond take_profit2 at once: that row marks TP1 only, and a
\* later row still beyond take_profit2 closes the position
C31_Witness ==
    \E j \in RiskRows : \E i \in 1 .. (j - 1) :
        /\ data[j].exit_reason = "TAKE_PROFIT2"
        /\ SamePosition(data, i, j)
        /\ data[i].tp1_hit
        /\ BeyondTp2(data, i)
        /\ Gt(data[i].atr, F(0))

\* the signal flags set on a row
SignalFlags(row) ==
    { f \in {"long_signal", "short_signal", "exit_long_signal", "exit_short_signal"} :
        row[f] }

(***************************************************************************)
(* C32: in the table generate_signals writes, entry and exit signals       *)
(* alternate: a row carries at most one of the four flags; an entry flag   *)
(* appears only when the last flag before it is an exit or there is none;  *)
(* exit_long_signal only when the last flag before it is a long_signal,    *)
(* exit_short_signal only when it is a short_signal.                       *)
(***************************************************************************)
C32_SignalsAlternate ==
    pc # "start" =>
        \A i \in DOMAIN data :
            LET row == data[i]
                tracked == TrackedBefore(data, i)
            IN  /\ Cardinality(SignalFlags(row)) <= 1
                /\ i = 0 => SignalFlags(row) = {}
                /\ (row.long_signal \/ row.short_signal) => tracked = "NEUTRAL"
                /\ row.exit_long_signal => tracked = "LONG"
                /\ row.exit_short_signal => tracked = "SHORT"

\* a finished table with entry, exit, entry and exit on four consecutive rows
C32_Witness ==
    /\ pc = "signals"
    /\ idx = NRows
    /\ \E i \in 1 .. (NRows - 4) :
            /\ data[i].long_signal
            /\ data[i + 1].exit_long_signal
            /\ data[i + 2].long_signal
            /\ data[i + 3].exit_long_signal

\* what one row of apply_risk_management may do: old and new are the row
\* before and after it, r and r2 the machine's locals before and after it
C33_OneTransition(old, new, r, r2) ==
    LET p == r.current_position
        p2 == r2.current_position
    IN  /\ (p = "NEUTRAL" /\ p2 # "NEUTRAL") =>
                /\ new.position = p2
                /\ new.exit_reason = "" /\ IsNaN(new.exit_price)
                /\ ~new.sl_hit /\ ~new.tp1_hit /\ ~new.tp2_hit
        /\ p # "NEUTRAL" =>
                /\ p2 \in {p, "NEUTRAL"}
                /\ new.position = p
                /\ new.entry_price = r.entry_price
                /\ r2.entry_price = r.entry_price
                /\ r2.entry_idx = r.entry_idx
                /\ (p2 = "NEUTRAL") <=> (new.exit_reason # "")
        /\ (p = "NEUTRAL" /\ p2 = "NEUTRAL") => new = old

(***************************************************************************)
(* C33: apply_risk_management makes at most one transition per row: a row  *)
(* that opens a position records no exit and no hit flag; a row that       *)
(* closes a position leaves the machine NEUTRAL and carries the closed     *)
(* position, whatever entry signal the row has; a LONG machine is LONG or  *)
(* NEUTRAL after the row, a SHORT one SHORT or NEUTRAL.                    *)
(***************************************************************************)
C33_OneTransitionPerBar ==
    [][(pc = "risk" /\ idx < NRows)
          => C33_OneTransition(data[idx], data'[idx], rm, rm')]_vars

\* a row that closed a LONG position and carries a short_signal, or closed a
\* position while carrying the long_signal of the generator's next entry
C33_Witness ==
    /\ pc = "risk"
    /\ idx > 1
    /\ rm.current_position = "NEUTRAL"
    /\ Closed(data, idx - 1)
    /\ (data[idx - 1].long_signal \/ data[idx - 1].short_signal)

\* the net quantity the tracked position stands for
TrackedQuantity(l) ==
    LET size == IF l.tp1_executed THEN Mul(QUANTITY, Frac(1, 2)) ELSE QUANTITY
    IN  IF l.current_position = "LONG" THEN size
        ELSE IF l.current_position = "SHORT" THEN Sub(F(0), size)
        ELSE F(0)

(***************************************************************************)
(* C34: in live_trade the amount bought less the amount sold by the orders *)
(* the exchange accepted is 0 while the tracked position is NEUTRAL,       *)
(* QUANTITY while LONG before TP1 and QUANTITY/2 after it, -QUANTITY while *)
(* SHORT before TP1 and -QUANTITY/2 after it, whichever orders failed.     *)
(***************************************************************************)
C34_NetQuantityTracked ==
    live # NoLocals => live.net = TrackedQuantity(live)

\* a SHORT position after its TP1, the order of the full exit just refused
C34_Witness ==
    /\ live # NoLocals
    /\ live.current_position = "SHORT"
    /\ live.tp1_executed
    /\ live.side = "buy"
    /\ live.amount = Mul(QUANTITY, Frac(1, 2))
    /\ ~live.order

\* the last row the settlement has written
LastSettled == IF pc = "pnl" THEN idx - 1 ELSE NRows - 1

\* row i emits a Trade Record: a full exit or a TP1 tranche
EmitsTrade(d, i) == Closed(d, i) \/ d[i].tp1_hit

(***************************************************************************)
(* C35: the cumulative_pnl of the last settled row is the sum of pnl over  *)
(* the Trade Records, and equity is initial_capital plus that sum; pnl is  *)
(* non-zero only on a row that emits a Trade Record, and records are       *)
(* emitted only on full-exit and TP1 rows: a row on which a position is    *)
(* merely held adds nothing to equity, and a position still open on the    *)
(* last row has no closing record.                                         *)
(***************************************************************************)
C35_EquityIsRealized ==
    pc \in {"pnl", "done", "reported"} =>
        /\ data[LastSettled].cumulative_pnl = SumTrades(trades)
        /\ data[LastSettled].equity = Add(initial_capital, SumTrades(trades))
        /\ \A i \in PnlRows :
                /\ data[i].pnl # F(0) => TradesAt(i) # {}
                /\ TradesAt(i) # {} => EmitsTrade(data, i)
                /\ ~EmitsTrade(data, i) =>
                        /\ data[i].pnl = F(0)
                        /\ data[i].equity = data[i - 1].equity
        /\ (/\ pc # "pnl"
            /\ InPosition(data, NRows - 1)
            /\ ~Closed(data, NRows - 1)) =>
                \A k \in 1 .. Len(trades) :
                    trades[k].exit_time >= EntryRow(data, NRows - 1)
                        => trades[k].exit_reason = "TAKE_PROFIT1"

\* a finished run whose position is still open on the last row, away from its
\* entry price, after a TP1 tranche was realized
C35_Witness ==
    /\ pc = "done"
    /\ InPosition(data, NRows - 1)
    /\ ~EmitsTrade(data, NRows - 1)
    /\ data[NRows - 1].close # data[NRows - 1].entry_price
    /\ trades # <<>>
    /\ data[NRows - 1].cumulative_pnl # F(0)

\* the hit flags set on a row
HitFlags(row) == { f \in {"sl_hit", "tp1_hit", "tp2_hit"} : row[f] }

(***************************************************************************)
(* C36: on every row apply_risk_management has written at most one of     *)
(* sl_hit, tp1_hit, tp2_hit is set; exit_price is a number exactly when    *)
(* exit_reason is non-empty; sl_hit goes with STOP_LOSS and exit_price =   *)
(* stop_loss, tp2_hit with TAKE_PROFIT2 and exit_price = take_profit2; a   *)
(* tp1_hit row has no exit_price; a row with a flag or an exit carries a   *)
(* position.                                                               *)
(***************************************************************************)
C36_ExitBookkeeping ==
    pc \in {"risk", "pnl", "done", "reported"} =>
        \A i \in DOMAIN data :
            LET row == data[i] IN
            /\ Cardinality(HitFlags(row)) <= 1
            /\ ~IsNaN(row.exit_price) <=> row.exit_reason # ""
            /\ row.exit_reason \in {"", "STOP_LOSS", "TAKE_PROFIT2", "STRATEGY_EXIT"}
            /\ row.sl_hit <=> row.exit_reason = "STOP_LOSS"
            /\ row.sl_hit => row.exit_price = row.stop_loss
            /\ row.tp2_hit <=> row.exit_reason = "TAKE_PROFIT2"
            /\ row.tp2_hit => row.exit_price = row.take_profit2
            /\ row.exit_reason = "STRATEGY_EXIT" => row.exit_price = row.close
            /\ row.tp1_hit => IsNaN(row.exit_price)
            /\ (HitFlags(row) # {} \/ row.exit_reason # "") => row.position # "None"

\* a stop-loss row whose close is also at take_profit1 and take_profit2 (the
\* levels of an entry with a zero range), after a TP1 row of another position
C36_Witness ==
    \E i \in RiskRows : \E j \in RiskRows :
        /\ data[i].sl_hit
        /\ BeyondTp2(data, i)
        /\ data[j].tp1_hit

\* the entry price and the three levels held by locals or carried by a row
Levels(x) == <<x.entry_price, x.stop_loss, x.take_profit1, x.take_profit2>>

\* the entry price and the levels of a position opened on `row`
EntryLevels(row, position) ==
    <<row.close,
      calculate_stop_loss_level(row.close, row.atr, position),
      calculate_take_profit_levels(row.close, row.atr, position)[1],
      calculate_take_profit_levels(row.close, row.atr, position)[2]>>

\* a row of apply_risk_management
C37_RiskStep ==
    (pc = "risk" /\ idx < NRows) =>
        /\ (rm.current_position = "NEUTRAL" /\ rm'.current_position # "NEUTRAL") =>
                /\ Levels(rm') = EntryLevels(data[idx], rm'.current_position)
                /\ Levels(data'[idx]) = Levels(rm')
        /\ rm.current_position # "NEUTRAL" =>
                /\ Levels(rm') = Levels(rm)
                /\ Levels(data'[idx]) = Levels(rm)

\* a step of live_trade
C37_LiveStep ==
    live # NoLocals =>
        /\ (live.current_position = "NEUTRAL" /\ live'.current_position # "NEUTRAL") =>
                Levels(live') = EntryLevels(data[NRows - 1], live'.current_position)
        /\ live.current_position # "NEUTRAL" => Levels(live') = Levels(live)

(***************************************************************************)
(* C37: while a position is open, in apply_risk_management and in          *)
(* live_trade, entry_price, stop_loss, take_profit1 and take_profit2 are   *)
(* those computed from the close and the ATR of the entry row, on every    *)
(* row up to and including the closing one.                                *)
(***************************************************************************)
C37_LevelsHeld ==
    [][C37_RiskStep /\ C37_LiveStep]_vars

\* live_trade holds a position after its TP1, and the newest row of the pass
\* has another close and an entry signal
C37_Witness ==
    /\ live # NoLocals
    /\ pc = "signals"
    /\ idx = NRows
    /\ live.current_position # "NEUTRAL"
    /\ live.tp1_executed
    /\ data[NRows - 1].close # live.entry_price
    /\ (data[NRows - 1].long_signal \/ data[NRows - 1].short_signal)

\* some long entry rule, some short entry rule holds on row i
LongRule(d, i) ==
    \/ check_long_condition_1(d, i)
    \/ check_long_condition_2(d, i)
    \/ check_long_condition_3(d, i)

ShortRule(d, i) ==
    \/ check_short_condition_1(d, i)
    \/ check_short_condition_2(d, i)
    \/ check_short_condition_3(d, i)

\* the direction of the entry when the long rules are tried first, and when
\* the short rules are
LongFirst(d, i) ==
    IF LongRule(d, i) THEN "LONG" ELSE IF ShortRule(d, i) THEN "SHORT" ELSE ""

ShortFirst(d, i) ==
    IF ShortRule(d, i) THEN "SHORT" ELSE IF LongRule(d, i) THEN "LONG" ELSE ""

(***************************************************************************)
(* C38: on every row i >= 1 a long entry rule holds only with the MACD     *)
(* line above its signal line at i and a short entry rule only with it     *)
(* below, so no long rule and short rule hold on the same row and trying   *)
(* the long rules before the short ones does not decide the direction.     *)
(***************************************************************************)
C38_RulesExclusive ==
    \A i \in 1 .. (NRows - 1) :
        /\ LongRule(data, i) => Gt(data[i].macd, data[i].macd_signal)
        /\ ShortRule(data, i) => Lt(data[i].macd, data[i].macd_signal)
        /\ ~(LongRule(data, i) /\ ShortRule(data, i))
        /\ LongFirst(data, i) = ShortFirst(data, i)
        /\ (pc = "signals" /\ i < idx) =>
                /\ data[i].long_signal => LongFirst(data, i) = "LONG"
                /\ data[i].short_signal => LongFirst(data, i) = "SHORT"

\* a short entry on a row whose bullish divergence flag is set as well, the
\* MACD line having been on its signal line the row before
C38_Witness ==
    /\ pc = "signals"
    /\ idx = NRows
    /\ \E i \in SignalRows :
            /\ data[i].short_signal
            /\ data[i].rsi_bullish_divergence
            /\ data[i - 1].macd = data[i - 1].macd_signal

\* a step of live_trade: the head of a pass (pc = "live"), generate_signals,
\* or the rest of the pass on the newest row
C39_Step ==
    LET tf == live'.timeframe
        t == live'.latest_candle_time
        last == live.last_candle_time
    IN  /\ pc = "live" =>
            /\ live'.calls = 0
            /\ live'.net = live.net
            /\ PositionState(live') = PositionState(live)
            /\ \A other \in TIMEFRAMES \ {tf} :
                    live'.last_candle_time[other] = last[other]
            /\ IF last[tf] # 0 /\ t <= last[tf]
               THEN /\ pc' = "live"
                    /\ live'.last_candle_time[tf] = last[tf]
               ELSE /\ pc' = "start"
                    /\ live'.last_candle_time[tf] = t
                    /\ t > last[tf]
        /\ pc # "live" =>
            /\ live'.last_candle_time = last
            /\ tf = live.timeframe
            /\ t = live.latest_candle_time
            /\ live'.calls <= 1
            /\ (live'.net # live.net \/ live'.calls > 0 \/
                    PositionState(live') # PositionState(live))
                    => (pc = "signals" /\ idx = NRows /\ pc' = "live")

(***************************************************************************)
(* C39: in live_trade the candle time acted upon increases strictly for    *)
(* each timeframe: a pass whose newest candle is not newer than the last   *)
(* one processed for its timeframe ends at once, with no order and the     *)
(* Position State as it was; a pass over a new candle records its time and *)
(* makes at most one create_order call, after generate_signals.            *)
(***************************************************************************)
C39_NewCandleOnly ==
    [][live # NoLocals => C39_Step]_vars

\* a pass passed over an older candle while a position was held
C39_Witness ==
    /\ live # NoLocals
    /\ pc = "live"
    /\ live.current_position # "NEUTRAL"
    /\ live.latest_candle_time < live.last_candle_time[live.timeframe]

\* the three stages as functions of the table they are given: each is its
\* column initialisation followed by its loop body on the rows 1 .. len(d)-1
signals_row(d, i, s) ==
    LET t == EntryTrigger(d, i) IN
    IF s.current_position = "NEUTRAL" THEN
        IF t \in LongTriggers THEN
            <<[d EXCEPT ![i].long_signal = TRUE, ![i].signal_trigger = t],
              [current_position |-> "LONG", entry_price |-> d[i].close, entry_idx |-> i]>>
        ELSE IF t \in ShortTriggers THEN
            <<[d EXCEPT ![i].short_signal = TRUE, ![i].signal_trigger = t],
              [current_position |-> "SHORT", entry_price |-> d[i].close, entry_idx |-> i]>>
        ELSE <<d, s>>
    ELSE IF s.current_position = "LONG" THEN
        IF check_ema_bearish_crossover(d, i) THEN
            <<[d EXCEPT ![i].exit_long_signal = TRUE,
                        ![i].signal_trigger = "EXIT_LONG_EMA"],
              [s EXCEPT !.current_position = "NEUTRAL"]>>
        ELSE <<d, s>>
    ELSE
        IF check_ema_bullish_crossover(d, i) THEN
            <<[d EXCEPT ![i].exit_short_signal = TRUE,
                        ![i].signal_trigger = "EXIT_SHORT_EMA"],
              [s EXCEPT !.current_position = "NEUTRAL"]>>
        ELSE <<d, s>>

RECURSIVE signals_loop(_, _)
signals_loop(d, n) ==
    IF n <= 1 THEN
        <<[i \in DOMAIN d |-> d[i] @@ SignalColumns],
          [current_position |-> "NEUTRAL", entry_price |-> F(0), entry_idx |-> 0]>>
    ELSE LET before == signals_loop(d, n - 1)
         IN  signals_row(before[1], n - 1, before[2])

generate_signals(d) == signals_loop(d, Cardinality(DOMAIN d))[1]

risk_row(d, i, r) ==
    IF r.current_position = "NEUTRAL" THEN
        IF d[i].long_signal THEN
            LET r2 == OpenPosition(d[i], i, "LONG")
            IN  <<[d EXCEPT ![i] = PositionRow(d[i], r2)], r2>>
        ELSE IF d[i].short_signal THEN
            LET r2 == OpenPosition(d[i], i, "SHORT")
            IN  <<[d EXCEPT ![i] = PositionRow(d[i], r2)], r2>>
        ELSE <<d, r>>
    ELSE LET res == ManagePosition(d[i], r)
         IN  <<[d EXCEPT ![i] = res[1]], res[2]>>

RECURSIVE risk_loop(_, _)
risk_loop(d, n) ==
    IF n <= 1 THEN <<[i \in DOMAIN d |-> d[i] @@ RiskColumns], RiskLocals>>
    ELSE LET before == risk_loop(d, n - 1)
         IN  risk_row(before[1], n - 1, before[2])

apply_risk_management(d) == risk_loop(d, Cardinality(DOMAIN d))[1]

pnl_row(d, i, b, ts) ==
    LET b1 == DetectOpen(d, i, b)
        res == Settle(d, i, b1, ts)
    IN  <<EquityRow([d EXCEPT ![i].pnl = res[1]], i), res[2], res[3]>>

RECURSIVE pnl_loop(_, _)
pnl_loop(d, n) ==
    IF n <= 1 THEN <<[i \in DOMAIN d |-> d[i] @@ PnlColumns], PnlLocals, <<>>>>
    ELSE LET before == pnl_loop(d, n - 1)
         IN  pnl_row(before[1], n - 1, before[2], before[3])

\* <<results, trades>> of the three stages run one after the other on d
run_stages(d) ==
    LET out == pnl_loop(apply_risk_management(generate_signals(d)),
                        Cardinality(DOMAIN d))
    IN  <<out[1], out[3]>>

\* the columns the three stages add to the bars
StageFields == SignalFields \cup RiskFields \cup DOMAIN PnlColumns

\* the first n rows of a table
Prefix(d, n) == [i \in 0 .. (n - 1) |-> d[i]]

\* the Trade Records emitted on the first n rows
TradesBefore(ts, n) ==
    LET Early(t) == t.exit_time < n IN SelectSeq(ts, Early)

(***************************************************************************)
(* C40: the annotations of row i depend only on rows 0..i: the three       *)
(* stages run on the first n rows of the bars of a finished run give, row  *)
(* for row, the signal flags, position columns and equity columns the run  *)
(* on the whole table gave, and the Trade Records it emitted on those      *)
(* rows, for every n.                                                      *)
(***************************************************************************)
C40_PrefixDetermined ==
    pc = "done" =>
        LET bars == Columns(data, DOMAIN data[0] \ StageFields) IN
        /\ run_stages(bars) = <<data, trades>>
        /\ \A n \in 1 .. NRows :
                LET part == run_stages(Prefix(bars, n)) IN
                /\ part[1] = Prefix(data, n)
                /\ part[2] = TradesBefore(trades, n)

\* a finished run that opened a position, took TP1 and closed on the last row:
\* every shorter run ends with the position still open
C40_Witness ==
    /\ pc = "done"
    /\ Len(trades) >= 2
    /\ trades[Len(trades)].exit_time = NRows - 1
    /\ data[NRows - 1].exit_reason # ""
    /\ InPosition(data, NRows - 2)
    /\ ~Closed(data, NRows - 2)

====
